---------------------------- MODULE Spec2Model ----------------------------
(***************************************************************************)
(* Parallel prime counter (multithreading/src): the orchestrator of        *)
(* main.ts, the TaskManager, the WorkerStatsManager, the worker loop of    *)
(* worker.ts with its byte-range line reader, and isPrime.                 *)
(*                                                                         *)
(* A file is a sequence of bytes, kept run-length encoded (a sequence of   *)
(* runs [b |-> byte, n |-> count]) so that files larger than the 1024-byte *)
(* chunk floor stay small in the state.  Durations are exact rationals     *)
(* (sum and count) where the code holds floating point quotients.          *)
(***************************************************************************)
EXTENDS Integers, Sequences, FiniteSets, Bags, TLC

(***************************** bounds **************************************)
MaxCores == 2
MaxLines == 3
MaxFailures == 2
MaxFileLen == 5
MaxCalls == 3
MaxPrime == 46000

(***************************** bytes and files *****************************)
\* byte codes: 0..9 are the characters '0'..'9'
NL == 10
SP == 11
XX == 12

Null == [null |-> TRUE]
NaN == -1

\* the element of a singleton set; { e(v) : v \in {x} } computes x once and
\* binds it to v, as a const binding does
The(S) == CHOOSE r \in S : TRUE

Run(b, n) == [b |-> b, n |-> n]

RECURSIVE Size(_)
Size(f) == IF f = <<>> THEN 0 ELSE Head(f).n + Size(Tail(f))

\* the bytes of f at offsets [s, e), as fs.createReadStream {start: s, end: e - 1} delivers them
RECURSIVE Slice(_, _, _)
Slice(f, s, e) ==
    IF f = <<>> \/ e <= 0 THEN <<>>
    ELSE LET r == Head(f)
             lo == IF s > 0 THEN s ELSE 0
             hi == IF e < r.n THEN e ELSE r.n
             rest == Slice(Tail(f), s - r.n, e - r.n)
         IN  IF hi > lo THEN <<Run(r.b, hi - lo)>> \o rest ELSE rest

\* readline: cut the stream at every newline; st.cur is the line buffer
RECURSIVE SplitAcc(_, _, _)
SplitAcc(f, cur, out) ==
    IF f = <<>> THEN [lines |-> out, rest |-> cur]
    ELSE LET r == Head(f)
         IN  IF r.b = NL
             THEN SplitAcc(IF r.n > 1 THEN <<Run(NL, r.n - 1)>> \o Tail(f) ELSE Tail(f),
                           <<>>, Append(out, cur))
             ELSE SplitAcc(Tail(f), Append(cur, r), out)

\* the 'line' events of a stream: every terminated line, then the
\* unterminated remainder at end of input when it is not empty
readlineLines(stream) ==
    LET sp == SplitAcc(stream, <<>>, <<>>)
    IN  IF sp.rest = <<>> THEN sp.lines ELSE Append(sp.lines, sp.rest)

RECURSIVE TrimLeft(_)
TrimLeft(l) == IF l # <<>> /\ Head(l).b = SP THEN TrimLeft(Tail(l)) ELSE l

RECURSIVE TrimRight(_)
TrimRight(l) ==
    IF l # <<>> /\ l[Len(l)].b = SP THEN TrimRight(SubSeq(l, 1, Len(l) - 1)) ELSE l

trim(l) == TrimRight(TrimLeft(l))

\* parseInt(s, 10): the value of the longest prefix of decimal digits, NaN when there is none
RECURSIVE ParseDigits(_, _, _)
ParseDigits(l, acc, seen) ==
    IF l = <<>> \/ Head(l).b > 9 THEN (IF seen THEN acc ELSE NaN)
    ELSE LET r == Head(l)
         IN  ParseDigits(IF r.n > 1 THEN <<Run(r.b, r.n - 1)>> \o Tail(l) ELSE Tail(l),
                         acc * 10 + r.b, TRUE)

parseInt(l) == The({ ParseDigits(s, 0, FALSE) : s \in {TrimLeft(l)} })

(***************************** primeCalculator.ts **************************)
TRIAL_DIVISION_THRESHOLD == 10000

RECURSIVE PowLoop(_, _, _, _)
PowLoop(res, base, exp, mod) ==
    IF exp > 0
    THEN PowLoop(IF exp % 2 = 1 THEN (res * base) % mod ELSE res,
                 (base * base) % mod, exp \div 2, mod)
    ELSE res

powerBigInt(base, exp, mod) == PowLoop(1, base % mod, exp, mod)

RECURSIVE MillerLoop(_, _, _)
MillerLoop(current_d, x, n) ==
    IF current_d * 2 <= n - 1
    THEN LET x2 == (x * x) % n
         IN  IF x2 = 1 THEN FALSE
             ELSE IF x2 = n - 1 THEN TRUE
             ELSE MillerLoop(current_d * 2, x2, n)
    ELSE FALSE

\* a Miller test without the squaring loop
millerTestBigIntNoSquaring(d, n, a) ==
    LET x == powerBigInt(a, d, n)
    IN  x = 1 \/ x = n - 1

millerTestBigInt(d, n, a) ==
    LET x == powerBigInt(a, d, n)
    IN  IF x = 1 \/ x = n - 1 THEN TRUE ELSE MillerLoop(d, x, n)

RECURSIVE TrialLoop(_, _)
TrialLoop(i, num) ==
    IF i * i <= num
    THEN IF num % i = 0 \/ num % (i + 2) = 0 THEN FALSE ELSE TrialLoop(i + 6, num)
    ELSE TRUE

RECURSIVE OddPart(_)
OddPart(d) == IF d % 2 = 0 THEN OddPart(d \div 2) ELSE d

bases_for_64bit == <<2, 325, 9375, 28178, 450775, 9780504, 1795265022>>

RECURSIVE BasesLoop(_, _, _)
BasesLoop(k, d, n) ==
    IF k > Len(bases_for_64bit) THEN TRUE
    ELSE LET a == bases_for_64bit[k]
         IN  IF n = a THEN TRUE
             ELSE IF a >= n - 1 THEN BasesLoop(k + 1, d, n)
             ELSE IF ~millerTestBigInt(d, n, a) THEN FALSE
             ELSE BasesLoop(k + 1, d, n)

isPrime(num) ==
    IF num <= 1 THEN FALSE
    ELSE IF num <= 3 THEN TRUE
    ELSE IF num % 2 = 0 \/ num % 3 = 0 THEN FALSE
    ELSE IF num < TRIAL_DIVISION_THRESHOLD THEN TrialLoop(5, num)
    ELSE BasesLoop(1, OddPart(num - 1), num)

(***************************** worker.ts: processTask **********************)
\* the numbers the 'line' handler hands to isPrime for one task: the first
\* line is dropped when startByte > 0, lines that parse to NaN are dropped
RECURSIVE ParsedLines(_)
ParsedLines(ls) ==
    IF ls = <<>> THEN <<>>
    ELSE LET num == The({ parseInt(t) : t \in {trim(Head(ls))} })
         IN  (IF num # NaN THEN <<num>> ELSE <<>>) \o ParsedLines(Tail(ls))

readIntegers(f, startByte, endByte) ==
    The({ ParsedLines(IF startByte > 0 /\ ls # <<>> THEN Tail(ls) ELSE ls) :
            ls \in { readlineLines(stream) : stream \in {Slice(f, startByte, endByte)} } })

RECURSIVE CountPrimes(_)
CountPrimes(nums) ==
    IF nums = <<>> THEN 0
    ELSE (IF isPrime(Head(nums)) THEN 1 ELSE 0) + CountPrimes(Tail(nums))

\* the count processTask resolves with
processTask(f, task) ==
    The({ CountPrimes(nums) : nums \in {readIntegers(f, task.startByte, task.endByte)} })

(***************************** taskManager.ts ******************************)
MIN_CHUNK_SIZE == 1024 * 1024
MAX_CHUNK_SIZE == 10 * 1024 * 1024
HISTORY_WINDOW == 20

CeilDiv(a, b) == (a + b - 1) \div b
Min(a, b) == IF a < b THEN a ELSE b
Max(a, b) == IF a > b THEN a ELSE b

\* a duration average s / k; k = 0 stands for the initial value 0
Rat(sum, k) == [s |-> sum, k |-> k]
Rat0 == Rat(0, 0)
RatIsZero(r) == r.k = 0 \/ r.s = 0
RatGt(r, c) == r.k > 0 /\ r.s > c * r.k

Task(startByte, endByte, id) == [startByte |-> startByte, endByte |-> endByte, id |-> id]
\* a byte count that takes endByte as the last byte of the range
TaskSizeInclusive(t) == t.endByte - t.startByte + 1

TaskSize(t) == t.endByte - t.startByte

\* the small-file chunk size without the 1 KiB floor
calculateOptimalChunkSizeNoFloor(fileSize, NUM_CORES) ==
    IF fileSize < MAX_CHUNK_SIZE * NUM_CORES * 4
    THEN CeilDiv(fileSize, NUM_CORES * (IF fileSize < MIN_CHUNK_SIZE * NUM_CORES * 2
                                       THEN 2 ELSE 4))
    ELSE Min(Max(CeilDiv(fileSize, NUM_CORES * 4), MIN_CHUNK_SIZE), MAX_CHUNK_SIZE)

\* the medium-file chunk size with twice the divisor
calculateOptimalChunkSizeEighth(fileSize, NUM_CORES) ==
    IF fileSize < MIN_CHUNK_SIZE * NUM_CORES * 2
    THEN Max(CeilDiv(fileSize, NUM_CORES * 2), 1024)
    ELSE IF fileSize < MAX_CHUNK_SIZE * NUM_CORES * 4
    THEN CeilDiv(fileSize, NUM_CORES * 8)
    ELSE Min(Max(CeilDiv(fileSize, NUM_CORES * 4), MIN_CHUNK_SIZE), MAX_CHUNK_SIZE)

calculateOptimalChunkSize(fileSize, NUM_CORES) ==
    IF fileSize < MIN_CHUNK_SIZE * NUM_CORES * 2
    THEN Max(CeilDiv(fileSize, NUM_CORES * 2), 1024)
    ELSE IF fileSize < MAX_CHUNK_SIZE * NUM_CORES * 4
    THEN CeilDiv(fileSize, NUM_CORES * 4)
    ELSE Min(Max(CeilDiv(fileSize, NUM_CORES * 4), MIN_CHUNK_SIZE), MAX_CHUNK_SIZE)

\* a counter that is read but not advanced
postIncrementStuck(counter) == counter

\* this.taskIdCounter++ : the counter after one id was taken
postIncrement(counter) == counter + 1

\* the partition loop without the Math.min that truncates the last task
RECURSIVE InitialLoopUntruncated(_, _, _, _, _)
InitialLoopUntruncated(startByte, fileSize, initialChunkSize, counter, acc) ==
    IF startByte < fileSize
    THEN InitialLoopUntruncated(startByte + initialChunkSize, fileSize, initialChunkSize,
                                postIncrement(counter),
                                Append(acc, Task(startByte, startByte + initialChunkSize,
                                                 counter)))
    ELSE [tasks |-> acc, counter |-> counter]

RECURSIVE InitialLoop(_, _, _, _, _)
InitialLoop(startByte, fileSize, initialChunkSize, counter, acc) ==
    IF startByte < fileSize
    THEN InitialLoop(startByte + initialChunkSize, fileSize, initialChunkSize,
                     postIncrement(counter),
                     Append(acc, Task(startByte, Min(startByte + initialChunkSize, fileSize),
                                      counter)))
    ELSE [tasks |-> acc, counter |-> counter]

\* the returned tasks and the taskIdCounter left behind
createInitialTasks(fileSize, NUM_CORES, counter) ==
    InitialLoop(0, fileSize, calculateOptimalChunkSize(fileSize, NUM_CORES), counter, <<>>)

\* the base chunk size chosen by the average passed in, the window ignored
calculateChunkSizeGlobalOnly(recentAvg, globalAverageTime) ==
    IF RatGt(globalAverageTime, 1000) THEN MIN_CHUNK_SIZE
    ELSE IF RatGt(globalAverageTime, 500) THEN CeilDiv(MIN_CHUNK_SIZE + MAX_CHUNK_SIZE, 4)
    ELSE IF RatGt(globalAverageTime, 200) THEN CeilDiv(MIN_CHUNK_SIZE + MAX_CHUNK_SIZE, 2)
    ELSE MAX_CHUNK_SIZE

calculateChunkSize(recentAvg, globalAverageTime) ==
    LET avgTime == IF RatIsZero(recentAvg) THEN globalAverageTime ELSE recentAvg
    IN  IF RatGt(avgTime, 1000) THEN MIN_CHUNK_SIZE
        ELSE IF RatGt(avgTime, 500) THEN CeilDiv(MIN_CHUNK_SIZE + MAX_CHUNK_SIZE, 4)
        ELSE IF RatGt(avgTime, 200) THEN CeilDiv(MIN_CHUNK_SIZE + MAX_CHUNK_SIZE, 2)
        ELSE MAX_CHUNK_SIZE

\* twice the endByte of a task cut without the Math.max / Math.min clamps of
\* the slow and fast classes
adaptiveEndTimes2Unclamped(startByte, endByte, workerPerformance, globalAverageTime, recentAvg) ==
    LET baseChunkSize == calculateChunkSize(recentAvg, globalAverageTime)
        adjustedTimes2 ==
            CASE workerPerformance = "slow" -> baseChunkSize
              [] workerPerformance = "fast" -> 3 * baseChunkSize
              [] OTHER -> 2 * baseChunkSize
        actualTimes2 == Min(adjustedTimes2, 2 * (endByte - startByte))
    IN  2 * startByte + actualTimes2

\* twice the task's endByte: baseChunkSize / 2 and baseChunkSize * 1.5 are
\* floating point quotients, kept exact here by doubling every term
adaptiveEndTimes2(startByte, endByte, workerPerformance, globalAverageTime, recentAvg) ==
    LET baseChunkSize == calculateChunkSize(recentAvg, globalAverageTime)
        adjustedTimes2 ==
            CASE workerPerformance = "slow" -> Max(baseChunkSize, 2 * MIN_CHUNK_SIZE)
              [] workerPerformance = "fast" -> Min(3 * baseChunkSize, 2 * MAX_CHUNK_SIZE)
              [] OTHER -> 2 * baseChunkSize
        actualTimes2 == Min(adjustedTimes2, 2 * (endByte - startByte))
    IN  2 * startByte + actualTimes2

\* a task of the adjusted size, not capped by the remaining range
createAdaptiveTaskUncapped(startByte, endByte, workerPerformance, globalAverageTime, recentAvg, counter) ==
    Task(startByte,
         startByte + adaptiveEndTimes2(0, MAX_CHUNK_SIZE, workerPerformance,
                                       globalAverageTime, recentAvg) \div 2,
         counter)

createAdaptiveTask(startByte, endByte, workerPerformance, globalAverageTime, recentAvg, counter) ==
    Task(startByte,
         adaptiveEndTimes2(startByte, endByte, workerPerformance, globalAverageTime, recentAvg)
            \div 2,
         counter)

RECURSIVE SumSeq(_)
SumSeq(q) == IF q = <<>> THEN 0 ELSE Head(q) + SumSeq(Tail(q))

\* the oldest duration dropped one call late: length > 20 for length >= 20
addPerformanceDataLateShift(history, processingTime) ==
    Append(IF Len(history) > HISTORY_WINDOW THEN Tail(history) ELSE history, processingTime)

\* the history after addPerformanceData(processingTime)
addPerformanceData(history, processingTime) ==
    Append(IF Len(history) >= HISTORY_WINDOW THEN Tail(history) ELSE history, processingTime)

recentAverageOf(history) == Rat(SumSeq(history), Len(history))

(***************************** workerStats.ts ******************************)
ZeroStats ==
    [tasksCompleted |-> 0, totalProcessingTime |-> 0, primesFound |-> 0,
     avgProcessingTime |-> Rat0]

MapSet(m, k, v) == [x \in DOMAIN m \cup {k} |-> IF x = k THEN v ELSE m[x]]
MapDelete(m, k) == [x \in DOMAIN m \ {k} |-> m[x]]
MapGet(m, k) == IF k \in DOMAIN m THEN m[k] ELSE Null
EmptyMap == [x \in {} |-> Null]

initWorkerStats(stats, workerId) == MapSet(stats, workerId, ZeroStats)

\* an update that counts the task but not its processing time
updatedStatsDropsTime(st, result) ==
    [tasksCompleted |-> st.tasksCompleted + 1,
     totalProcessingTime |-> st.totalProcessingTime,
     primesFound |-> st.primesFound + result.count,
     avgProcessingTime |-> Rat(st.totalProcessingTime, st.tasksCompleted + 1)]

\* the stats entry of result.workerId after updateWorkerStats(result)
updatedStats(st, result) ==
    [tasksCompleted |-> st.tasksCompleted + 1,
     totalProcessingTime |-> st.totalProcessingTime + result.processingTime,
     primesFound |-> st.primesFound + result.count,
     avgProcessingTime |-> Rat(st.totalProcessingTime + result.processingTime,
                               st.tasksCompleted + 1)]

\* a classification made without waiting for three completed tasks
getWorkerPerformanceNoWarmup(stats, total, globalAvg, workerId) ==
    IF workerId \notin DOMAIN stats \/ stats[workerId].tasksCompleted = 0 THEN "average"
    ELSE LET a == stats[workerId].avgProcessingTime
             num == a.s * globalAvg.k
             den == a.k * globalAvg.s
         IN  IF den = 0 THEN (IF num > 0 THEN "slow" ELSE "average")
             ELSE IF 10 * num > 12 * den THEN "slow"
             ELSE IF 10 * num < 8 * den THEN "fast"
             ELSE "average"

\* a classification with the two comparisons interchanged
getWorkerPerformanceSwapped(stats, total, globalAvg, workerId) ==
    IF total < 3 THEN "average"
    ELSE IF workerId \notin DOMAIN stats \/ stats[workerId].tasksCompleted = 0 THEN "average"
    ELSE LET a == stats[workerId].avgProcessingTime
             num == a.s * globalAvg.k
             den == a.k * globalAvg.s
         IN  IF den = 0 THEN (IF num > 0 THEN "fast" ELSE "average")
             ELSE IF 10 * num > 12 * den THEN "fast"
             ELSE IF 10 * num < 8 * den THEN "slow"
             ELSE "average"

setCurrentTask(current, workerId, task) == MapSet(current, workerId, task)

\* this.currentTasks.get(workerId) || null
getCurrentTask(current, workerId) == MapGet(current, workerId)

\* a clear that empties the whole map
clearWorkerTaskAll(current, workerId) == EmptyMap

clearWorkerTask(current, workerId) == MapDelete(current, workerId)

getWorkerPerformance(stats, total, globalAvg, workerId) ==
    IF total < 3 THEN "average"
    ELSE IF workerId \notin DOMAIN stats \/ stats[workerId].tasksCompleted = 0 THEN "average"
    ELSE LET a == stats[workerId].avgProcessingTime
             \* ratio = (a.s / a.k) / (globalAvg.s / globalAvg.k)
             num == a.s * globalAvg.k
             den == a.k * globalAvg.s
         IN  IF den = 0 THEN (IF num > 0 THEN "slow" ELSE "average")
             ELSE IF 10 * num > 12 * den THEN "slow"
             ELSE IF 10 * num < 8 * den THEN "fast"
             ELSE "average"

(***************************** main.ts: state ******************************)
VARIABLES
    file,                        \* the input file (run-length encoded bytes)
    NUM_CORES,                   \* os.cpus().length
    pc,                          \* "init", "running", "reported", "crashed", "ended"
    fileSize, totalBytesProcessed, primeCount,
    tasks, failedTasks, remainingFileRange, busyWorkers,
    workerStats, currentTasks, globalAverageProcessingTime, totalTasksCompleted,
    taskIdCounter, performanceHistory, recentGlobalAverage,
    workers,                     \* the worker threads: status, task in hand, message posted
    completed,                   \* history: bag of the tasks whose Result was folded
    died,                        \* history: bag of the tasks in flight when their worker failed
    requeued,                    \* history: bag of the tasks pushed onto failedTasks
    failures,                    \* history: number of worker failures so far
    rdFile, rdCuts, rdPos, rdOut,        \* reader harness: file, split offsets, cursor, output
    tmCounter, tmMinted, tmCalls,        \* TaskManager harness: counter, tasks minted, calls made
    tmHistory, tmLast,                   \* TaskManager harness: performanceHistory, the last call
    tmRecent, tmLog,                     \* TaskManager harness: recentGlobalAverage, every duration recorded
    wsLog, wsLast,                       \* WorkerStatsManager harness: the Results applied, the last call
    updateLock,                          \* WorkerStatsManager.updateLock
    prLast                               \* isPrime harness: the last call and its answer

mainVars ==
    <<file, NUM_CORES, pc, fileSize, totalBytesProcessed, primeCount, tasks, failedTasks,
      remainingFileRange, busyWorkers, workerStats, currentTasks,
      globalAverageProcessingTime, totalTasksCompleted, taskIdCounter, performanceHistory,
      recentGlobalAverage, workers, completed, died, requeued, failures>>
rdVars == <<rdFile, rdCuts, rdPos, rdOut>>
tmVars == <<tmCounter, tmMinted, tmCalls, tmHistory, tmLast, tmRecent, tmLog>>
wsVars == <<wsLog, wsLast, updateLock>>
prVars == <<prLast>>
vars == <<mainVars, rdVars, tmVars, wsVars, prVars>>

Front(q) == SubSeq(q, 1, Len(q) - 1)
Last(q) == q[Len(q)]

Range(startByte, endByte) == [start |-> startByte, end |-> endByte]

\* processing times (ms) a Result can report
Times == {100, 400}

(***************************** input files *********************************)
RECURSIVE Digits(_)
Digits(txt) == IF txt = <<>> THEN <<>> ELSE <<Run(Head(txt), 1)>> \o Digits(Tail(txt))

\* one line of `total` bytes: the digits, padding spaces, a newline
LineOf(txt, total) ==
    Digits(txt)
    \o (IF total - Len(txt) - 1 > 0 THEN <<Run(SP, total - Len(txt) - 1)>> ELSE <<>>)
    \o <<Run(NL, 1)>>

RECURSIVE FileOf(_, _, _)
FileOf(k, txt, total) == IF k = 0 THEN <<>> ELSE LineOf(txt, total) \o FileOf(k - 1, txt, total)

Tokens == {<<7>>, <<1, 3>>, <<2, 1>>}
LineLens == {3, 1023, 1024}
Files == {FileOf(k, txt, total) : k \in 0..MaxLines, txt \in Tokens, total \in LineLens}

\* the primes on the lines of the whole file, read in one piece
PrimeRef(n) == n > 1 /\ \A d \in 2..(n - 1) : n % d # 0
WholeFileIntegers(f) == readIntegers(f, 0, Size(f))
OraclePrimeCount(f) == Cardinality({i \in 1..Len(WholeFileIntegers(f)) : PrimeRef(WholeFileIntegers(f)[i])})

(***************************** main.ts: dispatch ***************************)
\* tasks.sort((a, b) => size(a) - size(b)): stable, ascending by byte size
RECURSIVE InsertBySize(_, _)
InsertBySize(t, sorted) ==
    IF sorted = <<>> THEN <<t>>
    ELSE IF TaskSize(Head(sorted)) <= TaskSize(t)
         THEN <<Head(sorted)>> \o InsertBySize(t, Tail(sorted))
         ELSE <<t>> \o sorted

RECURSIVE SortBySize(_)
SortBySize(q) == IF q = <<>> THEN <<>> ELSE InsertBySize(Last(q), SortBySize(Front(q)))

Decision(task, failed, queue, rem, counter) ==
    [task |-> task, failedTasks |-> failed, tasks |-> queue, rem |-> rem, counter |-> counter]

\* remainingFileRange after an adaptive task was cut from its start
AdvanceRange(rem, task) ==
    IF task.endByte >= rem.end THEN Null ELSE Range(task.endByte, rem.end)

\* the regular-task test written as tasks.length > 1: the last queued task is
\* never dispatched
assignTaskToWorkerSkipsLast(failed, queue, rem, workerPerformance, globalAvg, recentAvg, counter) ==
    IF Len(failed) > 0
    THEN Decision(Last(failed), Front(failed), queue, rem, counter)
    ELSE IF Len(queue) > 1
    THEN Decision(Last(queue), failed, Front(queue), rem, counter)
    ELSE IF rem # Null
    THEN LET task == createAdaptiveTask(rem.start, rem.end, workerPerformance,
                                        globalAvg, recentAvg, counter)
         IN  Decision(task, failed, queue, AdvanceRange(rem, task), postIncrement(counter))
    ELSE Decision(Null, failed, queue, rem, counter)

\* the regular task taken with tasks.shift() in every case
assignTaskToWorkerShifts(failed, queue, rem, workerPerformance, globalAvg, recentAvg, counter) ==
    IF Len(failed) > 0
    THEN Decision(Last(failed), Front(failed), queue, rem, counter)
    ELSE IF Len(queue) > 0
    THEN LET sorted == IF workerPerformance = "slow" /\ Len(queue) > 1
                       THEN SortBySize(queue) ELSE queue
         IN  Decision(Head(sorted), failed, Tail(sorted), rem, counter)
    ELSE IF rem # Null
    THEN LET task == createAdaptiveTask(rem.start, rem.end, workerPerformance,
                                        globalAvg, recentAvg, counter)
         IN  Decision(task, failed, queue, AdvanceRange(rem, task), postIncrement(counter))
    ELSE Decision(Null, failed, queue, rem, counter)

\* a dispatch that reads the last queued task and leaves it in the queue
assignTaskToWorkerKeepsQueue(failed, queue, rem, workerPerformance, globalAvg, recentAvg, counter) ==
    IF Len(failed) > 0
    THEN Decision(Last(failed), Front(failed), queue, rem, counter)
    ELSE IF Len(queue) > 0
    THEN Decision(Last(queue), failed, queue, rem, counter)
    ELSE Decision(Null, failed, queue, rem, counter)

\* assignTaskToWorker: the task posted to the worker (Null: the exit message)
\* and the queues, range and id counter it leaves behind
assignTaskToWorker(failed, queue, rem, workerPerformance, globalAvg, recentAvg, counter) ==
    IF Len(failed) > 0
    THEN Decision(Last(failed), Front(failed), queue, rem, counter)
    ELSE IF Len(queue) > 0
    THEN IF workerPerformance = "slow" /\ Len(queue) > 1
         THEN LET sorted == SortBySize(queue)
              IN  Decision(Head(sorted), failed, Tail(sorted), rem, counter)
         ELSE Decision(Last(queue), failed, Front(queue), rem, counter)
    ELSE IF rem # Null
    THEN LET task == createAdaptiveTask(rem.start, rem.end, workerPerformance,
                                        globalAvg, recentAvg, counter)
         IN  Decision(task, failed, queue, AdvanceRange(rem, task), postIncrement(counter))
    ELSE Decision(Null, failed, queue, rem, counter)

\* the replacement drawn as tasks.pop() || failedTasks.pop()
replacementTaskQueueFirst(failed, queue, rem, globalAvg, recentAvg, counter) ==
    IF Len(queue) > 0
    THEN Decision(Last(queue), failed, Front(queue), rem, counter)
    ELSE IF Len(failed) > 0
    THEN Decision(Last(failed), Front(failed), queue, rem, counter)
    ELSE Decision(Null, failed, queue, rem, counter)

\* a replacement that reads the last failed task and leaves it in failedTasks
replacementTaskKeepsFailed(failed, queue, rem, globalAvg, recentAvg, counter) ==
    IF Len(failed) > 0
    THEN Decision(Last(failed), failed, queue, rem, counter)
    ELSE IF Len(queue) > 0
    THEN Decision(Last(queue), failed, Front(queue), rem, counter)
    ELSE Decision(Null, failed, queue, rem, counter)

\* the worker 'error' handler's choice of replacementTask, after the failed
\* task was pushed: failedTasks.pop() || tasks.pop() || adaptive task
replacementTask(failed, queue, rem, globalAvg, recentAvg, counter) ==
    IF ~(Len(queue) > 0 \/ Len(failed) > 0 \/ rem # Null)
    THEN Decision(Null, failed, queue, rem, counter)
    ELSE LET fromFailed == Len(failed) > 0
             fromQueue == ~fromFailed /\ Len(queue) > 0
             task == IF fromFailed THEN Last(failed)
                     ELSE IF fromQueue THEN Last(queue)
                     ELSE createAdaptiveTask(rem.start, rem.end, "average",
                                             globalAvg, recentAvg, counter)
         IN  Decision(task,
                      IF fromFailed THEN Front(failed) ELSE failed,
                      IF fromQueue THEN Front(queue) ELSE queue,
                      IF rem # Null /\ task.startByte >= rem.start
                      THEN AdvanceRange(rem, task) ELSE rem,
                      IF fromFailed \/ fromQueue THEN counter ELSE postIncrement(counter))

\* a completion test that does not look at the busy workers
allTasksCompletedIgnoringBusy(busy, queue, failed, rem) ==
    Len(queue) = 0 /\ Len(failed) = 0 /\ rem = Null

\* the completion test at the end of handleWorkerMessage
allTasksCompleted(busy, queue, failed, rem) ==
    busy = {} /\ Len(queue) = 0 /\ Len(failed) = 0 /\ rem = Null

(***************************** main.ts: startup ****************************)
\* a remaining range that starts at the end of the first initial task
initialRangeFromFirst(queue, size) ==
    IF Len(queue) > 0 /\ Head(queue).endByte < size
    THEN Range(Head(queue).endByte, size) ELSE Null

\* remainingFileRange as the fs.stat callback first sets it
initialRange(queue, size) ==
    IF Len(queue) > 0 /\ Last(queue).endByte < size
    THEN Range(Last(queue).endByte, size) ELSE Null

\* the worker-creation loop bounded by the number of tasks only
RECURSIVE StartLoopAllTasks(_, _, _, _, _, _)
StartLoopAllTasks(i, cores, queue, rem, counter, given) ==
    IF i < MaxCores /\ Len(queue) > 0
    THEN StartLoopAllTasks(i + 1, cores, Front(queue), rem, counter,
                           Append(given, Last(queue)))
    ELSE [tasks |-> queue, rem |-> rem, counter |-> counter, given |-> given]

\* the worker-creation loop: given[i + 1] is the initial task of worker i
RECURSIVE StartLoop(_, _, _, _, _, _)
StartLoop(i, cores, queue, rem, counter, given) ==
    IF i < cores /\ (Len(queue) > 0 \/ rem # Null)
    THEN IF Len(queue) > 0
         THEN StartLoop(i + 1, cores, Front(queue), rem, counter, Append(given, Last(queue)))
         ELSE LET task == createAdaptiveTask(rem.start, rem.end, "average", Rat0, Rat0, counter)
              IN  StartLoop(i + 1, cores, queue, AdvanceRange(rem, task), postIncrement(counter),
                            Append(given, task))
    ELSE [tasks |-> queue, rem |-> rem, counter |-> counter, given |-> given]

\* no TaskManager call made yet
NoCall == [op |-> "none"]

Lane(status, task, msg) == [status |-> status, task |-> task, msg |-> msg]
NoLane == Lane("none", Null, Null)

\* the message a worker posts after processTask resolved
Result(count, workerId, task, time) ==
    [count |-> count, workerId |-> workerId, taskCompleted |-> task, processingTime |-> time]

\* a failure notification that does not name the task
FailureMessageNoTask(workerId, task) ==
    [type |-> "error", workerId |-> workerId, taskFailed |-> Null]

\* the message a worker posts from the catch block of handleTasks
FailureMessage(workerId, task) ==
    [type |-> "error", workerId |-> workerId, taskFailed |-> task]

WorkerIds == 0..(MaxCores - 1)

Init ==
    /\ file \in Files
    /\ NUM_CORES \in 1..MaxCores
    /\ pc = "init"
    /\ fileSize = 0
    /\ totalBytesProcessed = 0
    /\ primeCount = 0
    /\ tasks = <<>>
    /\ failedTasks = <<>>
    /\ remainingFileRange = Null
    /\ busyWorkers = {}
    /\ workerStats = EmptyMap
    /\ currentTasks = EmptyMap
    /\ globalAverageProcessingTime = Rat0
    /\ totalTasksCompleted = 0
    /\ taskIdCounter = 0
    /\ performanceHistory = <<>>
    /\ recentGlobalAverage = Rat0
    /\ workers = [w \in WorkerIds |-> NoLane]
    /\ completed = EmptyBag
    /\ died = EmptyBag
    /\ requeued = EmptyBag
    /\ failures = 0
    /\ rdFile = <<>> /\ rdCuts = {} /\ rdPos = 0 /\ rdOut = <<>>
    /\ tmCounter = 0 /\ tmMinted = <<>> /\ tmCalls = 0
    /\ tmHistory = <<>> /\ tmLast = NoCall /\ tmRecent = Rat0 /\ tmLog = <<>>
    /\ wsLog = <<>> /\ wsLast = NoCall /\ updateLock = FALSE
    /\ prLast = NoCall

\* the fs.stat callback
Startup ==
    /\ pc = "init"
    /\ LET size == Size(file)
           initial == createInitialTasks(size, NUM_CORES, taskIdCounter)
           st == StartLoop(0, NUM_CORES, initial.tasks, initialRange(initial.tasks, size),
                           initial.counter, <<>>)
           started == {i \in WorkerIds : i < Len(st.given)}
       IN  /\ fileSize' = size
           /\ tasks' = st.tasks
           /\ remainingFileRange' = st.rem
           /\ taskIdCounter' = st.counter
           /\ busyWorkers' = started
           /\ workerStats' = [w \in started |-> ZeroStats]
           /\ currentTasks' = [w \in started |-> st.given[w + 1]]
           /\ workers' = [w \in WorkerIds |->
                             IF w \in started THEN Lane("busy", st.given[w + 1], Null)
                             ELSE NoLane]
           \* with no worker to wait for, the process runs out of work and ends
           /\ pc' = IF started = {} THEN "ended" ELSE "running"
    /\ UNCHANGED <<file, NUM_CORES, totalBytesProcessed, primeCount, failedTasks,
                   globalAverageProcessingTime, totalTasksCompleted, performanceHistory,
                   recentGlobalAverage, completed, died, requeued, failures>>
    /\ UNCHANGED <<rdVars, prVars, tmVars, wsVars>>

(***************************** worker.ts: handleTasks **********************)
\* processTask resolves: the worker posts its Result and waits for a message
WorkerFinish(w) ==
    /\ pc = "running"
    /\ workers[w].status = "busy"
    /\ \E time \in Times :
          workers' = [workers EXCEPT ![w] =
              Lane("posted", workers[w].task,
                   Result(processTask(file, workers[w].task), w, workers[w].task, time))]
    /\ UNCHANGED <<file, NUM_CORES, pc, fileSize, totalBytesProcessed, primeCount, tasks,
                   failedTasks, remainingFileRange, busyWorkers, workerStats, currentTasks,
                   globalAverageProcessingTime, totalTasksCompleted, taskIdCounter,
                   performanceHistory, recentGlobalAverage, completed, died, requeued,
                   failures>>
    /\ UNCHANGED <<rdVars, prVars, tmVars, wsVars>>

\* processTask rejects (read stream or readline error): the worker posts
\* {type: 'error', taskFailed}, rethrows, and the catch of the worker entry
\* point ends the thread with process.exit(1); no 'error' event follows
WorkerReject(w) ==
    /\ pc = "running"
    /\ workers[w].status = "busy"
    /\ failures < MaxFailures
    /\ workers' = [workers EXCEPT ![w] =
          Lane("rejected", workers[w].task, FailureMessage(w, workers[w].task))]
    /\ died' = died (+) SetToBag({workers[w].task})
    /\ failures' = failures + 1
    /\ UNCHANGED <<file, NUM_CORES, pc, fileSize, totalBytesProcessed, primeCount, tasks,
                   failedTasks, remainingFileRange, busyWorkers, workerStats, currentTasks,
                   globalAverageProcessingTime, totalTasksCompleted, taskIdCounter,
                   performanceHistory, recentGlobalAverage, completed, requeued>>
    /\ UNCHANGED <<rdVars, prVars, tmVars, wsVars>>

\* the worker thread dies of an uncaught exception or of its resource limit
\* while its task is in flight: the 'error' event is on its way to main
WorkerDie(w) ==
    /\ pc = "running"
    /\ workers[w].status = "busy"
    /\ failures < MaxFailures
    /\ workers' = [workers EXCEPT ![w] = Lane("errored", workers[w].task, Null)]
    /\ died' = died (+) SetToBag({workers[w].task})
    /\ failures' = failures + 1
    /\ UNCHANGED <<file, NUM_CORES, pc, fileSize, totalBytesProcessed, primeCount, tasks,
                   failedTasks, remainingFileRange, busyWorkers, workerStats, currentTasks,
                   globalAverageProcessingTime, totalTasksCompleted, taskIdCounter,
                   performanceHistory, recentGlobalAverage, completed, requeued>>
    /\ UNCHANGED <<rdVars, prVars, tmVars, wsVars>>

\* the worker receives {type: 'exit'}: currentTask becomes null, the loop of
\* handleTasks ends and with it the thread; the process must still be alive
WorkerExit(w) ==
    /\ pc = "running"
    /\ workers[w].status = "exiting"
    /\ workers' = [workers EXCEPT ![w] = Lane("exited", Null, Null)]
    /\ UNCHANGED <<file, NUM_CORES, pc, fileSize, totalBytesProcessed, primeCount, tasks,
                   failedTasks, remainingFileRange, busyWorkers, workerStats, currentTasks,
                   globalAverageProcessingTime, totalTasksCompleted, taskIdCounter,
                   performanceHistory, recentGlobalAverage, completed, died, requeued,
                   failures>>
    /\ UNCHANGED <<rdVars, prVars, tmVars, wsVars>>

(***************************** main.ts: handlers ***************************)
\* the 'message' listener: handleWorkerMessage(worker, workerId, result)
HandleWorkerMessage(w) ==
    /\ pc = "running"
    /\ workers[w].status \in {"posted", "rejected"}
    /\ IF workers[w].status = "rejected"
       THEN \* result.count is undefined: primeCount becomes NaN, then reading
            \* result.taskCompleted.endByte throws and the main thread dies
            /\ primeCount' = NaN
            /\ pc' = "crashed"
            /\ workers' = [workers EXCEPT ![w] = Lane("exited", Null, Null)]
            /\ UNCHANGED <<totalBytesProcessed, tasks, failedTasks, remainingFileRange,
                           busyWorkers, workerStats, currentTasks,
                           globalAverageProcessingTime, totalTasksCompleted, taskIdCounter,
                           performanceHistory, recentGlobalAverage, completed>>
       ELSE LET result == workers[w].msg
                known == w \in DOMAIN workerStats
                stats1 == IF known
                          THEN MapSet(workerStats, w, updatedStats(workerStats[w], result))
                          ELSE workerStats
                total1 == IF known THEN totalTasksCompleted + 1 ELSE totalTasksCompleted
                global1 == IF known
                           THEN Rat(globalAverageProcessingTime.s + result.processingTime, total1)
                           ELSE globalAverageProcessingTime
                current1 == IF known THEN MapDelete(currentTasks, w) ELSE currentTasks
                history1 == addPerformanceData(performanceHistory, result.processingTime)
                recent1 == recentAverageOf(history1)
                busy1 == busyWorkers \ {w}
                d == assignTaskToWorker(failedTasks, tasks, remainingFileRange,
                                        getWorkerPerformance(stats1, total1, global1, w),
                                        global1, recent1, taskIdCounter)
                busy2 == IF d.task # Null THEN busy1 \cup {w} ELSE busy1
            IN  /\ primeCount' = primeCount + result.count
                /\ totalBytesProcessed' = totalBytesProcessed + TaskSize(result.taskCompleted)
                /\ workerStats' = stats1
                /\ totalTasksCompleted' = total1
                /\ globalAverageProcessingTime' = global1
                /\ performanceHistory' = history1
                /\ recentGlobalAverage' = recent1
                /\ failedTasks' = d.failedTasks
                /\ tasks' = d.tasks
                /\ remainingFileRange' = d.rem
                /\ taskIdCounter' = d.counter
                /\ busyWorkers' = busy2
                /\ currentTasks' = IF d.task # Null THEN MapSet(current1, w, d.task) ELSE current1
                /\ workers' = [workers EXCEPT ![w] =
                                  IF d.task # Null THEN Lane("busy", d.task, Null)
                                  ELSE Lane("exiting", Null, [type |-> "exit"])]
                /\ completed' = completed (+) SetToBag({result.taskCompleted})
                /\ pc' = IF allTasksCompleted(busy2, d.tasks, d.failedTasks, d.rem)
                         THEN "reported" ELSE "running"
    /\ UNCHANGED <<file, NUM_CORES, fileSize, died, requeued, failures>>
    /\ UNCHANGED <<rdVars, prVars, tmVars, wsVars>>

\* the 'error' listener of createWorker, with the createWorker call it makes
OnWorkerError(w) ==
    /\ pc = "running"
    /\ workers[w].status = "errored"
    /\ LET currentTask == MapGet(currentTasks, w)
           failed1 == IF currentTask # Null THEN Append(failedTasks, currentTask)
                      ELSE failedTasks
           busy1 == busyWorkers \ {w}
           d == replacementTask(failed1, tasks, remainingFileRange,
                                globalAverageProcessingTime, recentGlobalAverage,
                                taskIdCounter)
       IN  /\ requeued' = IF currentTask # Null THEN requeued (+) SetToBag({currentTask})
                          ELSE requeued
           /\ failedTasks' = d.failedTasks
           /\ tasks' = d.tasks
           /\ remainingFileRange' = d.rem
           /\ taskIdCounter' = d.counter
           /\ IF d.task # Null
              THEN /\ workerStats' = initWorkerStats(workerStats, w)
                   /\ busyWorkers' = busy1 \cup {w}
                   /\ currentTasks' = MapSet(currentTasks, w, d.task)
                   /\ workers' = [workers EXCEPT ![w] = Lane("busy", d.task, Null)]
              ELSE /\ workerStats' = workerStats
                   /\ busyWorkers' = busy1
                   /\ currentTasks' = currentTasks
                   /\ workers' = [workers EXCEPT ![w] = Lane("dead", Null, Null)]
    /\ UNCHANGED <<file, NUM_CORES, pc, fileSize, totalBytesProcessed, primeCount,
                   globalAverageProcessingTime, totalTasksCompleted, performanceHistory,
                   recentGlobalAverage, completed, died, failures>>
    /\ UNCHANGED <<rdVars, prVars, tmVars, wsVars>>

Next ==
    \/ Startup
    \/ \E w \in WorkerIds : WorkerFinish(w)
    \/ \E w \in WorkerIds : WorkerReject(w)
    \/ \E w \in WorkerIds : WorkerDie(w)
    \/ \E w \in WorkerIds : WorkerExit(w)
    \/ \E w \in WorkerIds : HandleWorkerMessage(w)
    \/ \E w \in WorkerIds : OnWorkerError(w)

Spec == Init /\ [][Next]_vars

(***************************** runs over a large file **********************)
\* 4 MiB in eight lines of 512 KiB: eight initial tasks on two cores
LargeFile == FileOf(8, <<7>>, 512 * 1024)

InitLarge ==
    /\ file = LargeFile
    /\ NUM_CORES \in 1..MaxCores
    /\ pc = "init"
    /\ fileSize = 0 /\ totalBytesProcessed = 0 /\ primeCount = 0
    /\ tasks = <<>> /\ failedTasks = <<>> /\ remainingFileRange = Null /\ busyWorkers = {}
    /\ workerStats = EmptyMap /\ currentTasks = EmptyMap
    /\ globalAverageProcessingTime = Rat0 /\ totalTasksCompleted = 0
    /\ taskIdCounter = 0 /\ performanceHistory = <<>> /\ recentGlobalAverage = Rat0
    /\ workers = [w \in WorkerIds |-> NoLane]
    /\ completed = EmptyBag /\ died = EmptyBag /\ requeued = EmptyBag /\ failures = 0
    /\ rdFile = <<>> /\ rdCuts = {} /\ rdPos = 0 /\ rdOut = <<>>
    /\ tmCounter = 0 /\ tmMinted = <<>> /\ tmCalls = 0
    /\ tmHistory = <<>> /\ tmLast = NoCall /\ tmRecent = Rat0 /\ tmLog = <<>>
    /\ wsLog = <<>> /\ wsLast = NoCall /\ updateLock = FALSE
    /\ prLast = NoCall

\* the steps of a run in which no worker fails
NextNoFailure ==
    \/ Startup
    \/ \E w \in WorkerIds : WorkerFinish(w)
    \/ \E w \in WorkerIds : WorkerExit(w)
    \/ \E w \in WorkerIds : HandleWorkerMessage(w)

SpecLarge == InitLarge /\ [][NextNoFailure]_vars

(***************************** reader harness ******************************)
\* the main program at rest, for the harnesses below
MainIdle ==
    /\ file = <<>> /\ NUM_CORES \in 1..MaxCores /\ pc = "idle"
    /\ fileSize = 0 /\ totalBytesProcessed = 0 /\ primeCount = 0
    /\ tasks = <<>> /\ failedTasks = <<>> /\ remainingFileRange = Null /\ busyWorkers = {}
    /\ workerStats = EmptyMap /\ currentTasks = EmptyMap
    /\ globalAverageProcessingTime = Rat0 /\ totalTasksCompleted = 0
    /\ taskIdCounter = 0 /\ performanceHistory = <<>> /\ recentGlobalAverage = Rat0
    /\ workers = [w \in WorkerIds |-> NoLane]
    /\ completed = EmptyBag /\ died = EmptyBag /\ requeued = EmptyBag /\ failures = 0

RdAlphabet == {1, 3, NL, XX}

RECURSIVE BytesOfLen(_)
BytesOfLen(n) ==
    IF n = 0 THEN {<<>>}
    ELSE {Append(q, Run(b, 1)) : q \in BytesOfLen(n - 1), b \in RdAlphabet}

SmallFiles == UNION {BytesOfLen(n) : n \in 0..MaxFileLen}

\* every small file with every set of split offsets strictly inside it
RdInit ==
    /\ MainIdle
    /\ NUM_CORES = 1
    /\ rdFile \in SmallFiles
    /\ rdCuts \in SUBSET (1..(Size(rdFile) - 1))
    /\ rdPos = 0
    /\ rdOut = <<>>
    /\ tmCounter = 0 /\ tmMinted = <<>> /\ tmCalls = 0
    /\ tmHistory = <<>> /\ tmLast = NoCall /\ tmRecent = Rat0 /\ tmLog = <<>>
    /\ wsLog = <<>> /\ wsLast = NoCall /\ updateLock = FALSE
    /\ prLast = NoCall

\* the end of the range that starts at rdPos
RangeEnd(cuts, pos, size) ==
    IF \E c \in cuts : c > pos
    THEN CHOOSE c \in cuts : c > pos /\ \A c2 \in cuts : c2 > pos => c <= c2
    ELSE size

\* one task over the next range of the partition, its integers appended
ReadNextRange ==
    /\ pc = "idle"
    /\ rdPos < Size(rdFile)
    /\ LET e == RangeEnd(rdCuts, rdPos, Size(rdFile))
       IN  /\ rdOut' = rdOut \o readIntegers(rdFile, rdPos, e)
           /\ rdPos' = e
    /\ UNCHANGED <<rdFile, rdCuts, tmVars, wsVars, prVars, mainVars>>

RdNext == ReadNextRange

SpecReader == RdInit /\ [][RdNext]_vars

(***************************** TaskManager harness *************************)
TmFileSizes == {0, 1, 1025, 3000, 2 * MIN_CHUNK_SIZE, 4 * MAX_CHUNK_SIZE + 5}
TmStarts == {0, 1024}
TmAverages == {Rat0, Rat(300, 1), Rat(700, 1), Rat(1500, 1)}
Performances == {"slow", "average", "fast"}
TmTimes == {0, 100, 700, 1500}

TmInit ==
    /\ MainIdle
    /\ rdFile = <<>> /\ rdCuts = {} /\ rdPos = 0 /\ rdOut = <<>>
    /\ tmCounter = 0 /\ tmMinted = <<>> /\ tmCalls = 0
    /\ tmHistory = <<>> /\ tmLast = NoCall /\ tmRecent = Rat0 /\ tmLog = <<>>
    /\ wsLog = <<>> /\ wsLast = NoCall /\ updateLock = FALSE
    /\ prLast = NoCall

\* the creation log keeps the id of each task and the method that minted it
Minted(by, task) == [by |-> by, id |-> task.id]

RECURSIVE MintedBy(_, _)
MintedBy(by, q) ==
    IF q = <<>> THEN <<>> ELSE <<Minted(by, Head(q))>> \o MintedBy(by, Tail(q))

TmCreateInitialTasks ==
    /\ pc = "idle"
    /\ tmCalls < MaxCalls
    /\ \E size \in TmFileSizes :
          LET r == createInitialTasks(size, NUM_CORES, tmCounter)
          IN  /\ tmMinted' = tmMinted \o MintedBy("createInitialTasks", r.tasks)
              /\ tmCounter' = r.counter
              /\ tmLast' = [op |-> "createInitialTasks", fileSize |-> size, tasks |-> r.tasks]
    /\ tmCalls' = tmCalls + 1
    /\ UNCHANGED <<tmHistory, tmRecent, tmLog, rdVars, prVars, wsVars, mainVars>>

TmCreateAdaptiveTask ==
    /\ pc = "idle"
    /\ tmCalls < MaxCalls
    /\ \E startByte \in TmStarts, size \in TmFileSizes, perf \in Performances,
          avg \in TmAverages :
          /\ startByte < size
          /\ LET recent == tmRecent
                 task == createAdaptiveTask(startByte, size, perf, avg, recent, tmCounter)
             IN  /\ tmMinted' = Append(tmMinted, Minted("createAdaptiveTask", task))
                 /\ tmLast' = [op |-> "createAdaptiveTask",
                               startByte |-> startByte, endByte |-> size,
                               workerPerformance |-> perf, globalAverageTime |-> avg,
                               window |-> tmHistory,
                               baseChunkSize |-> calculateChunkSize(recent, avg),
                               endTimes2 |-> adaptiveEndTimes2(startByte, size, perf, avg,
                                                               recent),
                               task |-> task]
          /\ tmCounter' = postIncrement(tmCounter)
    /\ tmCalls' = tmCalls + 1
    /\ UNCHANGED <<tmHistory, tmRecent, tmLog, rdVars, prVars, wsVars, mainVars>>

TmAddPerformanceData ==
    /\ pc = "idle"
    /\ tmCalls < MaxCalls
    /\ \E time \in TmTimes :
          /\ tmHistory' = addPerformanceData(tmHistory, time)
          /\ tmRecent' = recentAverageOf(addPerformanceData(tmHistory, time))
          /\ tmLog' = Append(tmLog, time)
          /\ tmLast' = [op |-> "addPerformanceData", processingTime |-> time]
    /\ tmCalls' = tmCalls + 1
    /\ UNCHANGED <<tmCounter, tmMinted, rdVars, prVars, wsVars, mainVars>>

TmNext == TmCreateInitialTasks \/ TmCreateAdaptiveTask \/ TmAddPerformanceData

SpecTaskManager == TmInit /\ [][TmNext]_vars

(***************************** history window ******************************)
\* the performanceHistory of a TaskManager after k calls
\* addPerformanceData(time)
RECURSIVE Recorded(_, _)
Recorded(k, time) ==
    IF k = 0 THEN <<>> ELSE addPerformanceData(Recorded(k - 1, time), time)

\* a TaskManager that has recorded up to HISTORY_WINDOW durations
HistInit ==
    /\ MainIdle
    /\ NUM_CORES = 1
    /\ rdFile = <<>> /\ rdCuts = {} /\ rdPos = 0 /\ rdOut = <<>>
    /\ tmCounter = 0 /\ tmMinted = <<>> /\ tmCalls = 0 /\ tmLast = NoCall
    /\ \E k \in 0..HISTORY_WINDOW, time \in TmTimes :
          /\ tmHistory = Recorded(k, time)
          /\ tmRecent = recentAverageOf(Recorded(k, time))
          /\ tmLog = [i \in 1..k |-> time]
    /\ wsLog = <<>> /\ wsLast = NoCall /\ updateLock = FALSE
    /\ prLast = NoCall

HistNext == TmAddPerformanceData

SpecHistory == HistInit /\ [][HistNext]_vars

(***************************** WorkerStatsManager harness *******************)
WsTimes == {0, 100, 400}
WsCounts == {0, 2}
WsTask == Task(0, 100, 0)

\* a fresh WorkerStatsManager
WsInit ==
    /\ MainIdle
    /\ NUM_CORES = 1
    /\ rdFile = <<>> /\ rdCuts = {} /\ rdPos = 0 /\ rdOut = <<>>
    /\ tmCounter = 0 /\ tmMinted = <<>> /\ tmCalls = 0
    /\ tmHistory = <<>> /\ tmLast = NoCall /\ tmRecent = Rat0 /\ tmLog = <<>>
    /\ wsLog = <<>> /\ wsLast = NoCall /\ updateLock = FALSE
    /\ prLast = NoCall

\* initWorkerStats(w) for a worker id not yet initialised
WsInitWorkerStats(w) ==
    /\ pc = "idle"
    /\ w \notin DOMAIN workerStats
    /\ workerStats' = initWorkerStats(workerStats, w)
    /\ wsLast' = [op |-> "initWorkerStats", workerId |-> w]
    /\ UNCHANGED <<file, NUM_CORES, pc, fileSize, totalBytesProcessed, primeCount, tasks,
                   failedTasks, remainingFileRange, busyWorkers, currentTasks,
                   globalAverageProcessingTime, totalTasksCompleted, taskIdCounter,
                   performanceHistory, recentGlobalAverage, workers, completed, died,
                   requeued, failures>>
    /\ UNCHANGED <<wsLog, updateLock, rdVars, prVars, tmVars>>

\* updateLock when updateWorkerStats is left, with the reset made only on
\* the normal path, as it is without a finally block
updateLockNoFinally(threw) == threw

\* updateLock when updateWorkerStats is left: try { updateLock = true; ... }
\* finally { updateLock = false }, whether the body threw or not
updateLockAtReturn(threw) == FALSE

\* updateWorkerStats(result) for the Result of an initialised worker; the
\* call gets past while (this.updateLock) {} only with the lock released
UpdateWorkerStats(w, times, counts) ==
    /\ pc = "idle"
    /\ Len(wsLog) < MaxCalls
    /\ ~updateLock
    /\ updateLock' = updateLockAtReturn(FALSE)
    /\ w \in DOMAIN workerStats
    /\ \E time \in times, count \in counts :
          LET result == Result(count, w, WsTask, time)
          IN  /\ workerStats' = MapSet(workerStats, w, updatedStats(workerStats[w], result))
              /\ totalTasksCompleted' = totalTasksCompleted + 1
              /\ globalAverageProcessingTime' =
                    Rat(globalAverageProcessingTime.s + result.processingTime,
                        totalTasksCompleted + 1)
              /\ currentTasks' = clearWorkerTask(currentTasks, w)
              /\ wsLog' = Append(wsLog, result)
              /\ wsLast' = [op |-> "updateWorkerStats", workerId |-> w]
    /\ UNCHANGED <<file, NUM_CORES, pc, fileSize, totalBytesProcessed, primeCount, tasks,
                   failedTasks, remainingFileRange, busyWorkers, taskIdCounter,
                   performanceHistory, recentGlobalAverage, workers, completed, died,
                   requeued, failures>>
    /\ UNCHANGED <<rdVars, prVars, tmVars>>

WsUpdateWorkerStats(w) == UpdateWorkerStats(w, WsTimes, WsCounts)

\* updateWorkerStats(result) with a result that is null or undefined (the
\* listener passes on whatever was posted, typed any): result.workerId throws
\* inside the try block, nothing is updated, the finally block runs
WsUpdateWorkerStatsThrows ==
    /\ pc = "idle"
    /\ ~updateLock
    /\ updateLock' = updateLockAtReturn(TRUE)
    /\ wsLast' = [op |-> "updateWorkerStatsThrew"]
    /\ UNCHANGED <<wsLog, mainVars, rdVars, prVars, tmVars>>

WsNext ==
    \/ \E w \in WorkerIds : WsInitWorkerStats(w)
    \/ \E w \in WorkerIds : WsUpdateWorkerStats(w)
    \/ WsUpdateWorkerStatsThrows

SpecWorkerStats == WsInit /\ [][WsNext]_vars

(***************************** current-task tracking ***********************)
CtTasks == {Task(0, 100, 1), Task(100, 200, 2)}

CtUpdateWorkerStats(w) == UpdateWorkerStats(w, {100}, {2})

CtSetCurrentTask(w) ==
    /\ pc = "idle"
    /\ \E task \in CtTasks :
          /\ currentTasks' = setCurrentTask(currentTasks, w, task)
          /\ wsLast' = [op |-> "setCurrentTask", workerId |-> w, task |-> task]
    /\ UNCHANGED <<file, NUM_CORES, pc, fileSize, totalBytesProcessed, primeCount, tasks,
                   failedTasks, remainingFileRange, busyWorkers, workerStats,
                   globalAverageProcessingTime, totalTasksCompleted, taskIdCounter,
                   performanceHistory, recentGlobalAverage, workers, completed, died,
                   requeued, failures>>
    /\ UNCHANGED <<wsLog, updateLock, rdVars, prVars, tmVars>>

CtClearWorkerTask(w) ==
    /\ pc = "idle"
    /\ currentTasks' = clearWorkerTask(currentTasks, w)
    /\ wsLast' = [op |-> "clearWorkerTask", workerId |-> w]
    /\ UNCHANGED <<file, NUM_CORES, pc, fileSize, totalBytesProcessed, primeCount, tasks,
                   failedTasks, remainingFileRange, busyWorkers, workerStats,
                   globalAverageProcessingTime, totalTasksCompleted, taskIdCounter,
                   performanceHistory, recentGlobalAverage, workers, completed, died,
                   requeued, failures>>
    /\ UNCHANGED <<wsLog, updateLock, rdVars, prVars, tmVars>>

\* a worker is started on a task, once per id: busyWorkers.add,
\* initWorkerStats, setCurrentTask
CtStartWorker(w) ==
    /\ pc = "idle"
    /\ w \notin DOMAIN workerStats
    /\ LET task == Task(0, 100, 1)
       IN  /\ currentTasks' = setCurrentTask(currentTasks, w, task)
           /\ wsLast' = [op |-> "startWorker", workerId |-> w, task |-> task]
    /\ busyWorkers' = busyWorkers \cup {w}
    /\ workerStats' = initWorkerStats(workerStats, w)
    /\ UNCHANGED <<file, NUM_CORES, pc, fileSize, totalBytesProcessed, primeCount, tasks,
                   failedTasks, remainingFileRange,
                   globalAverageProcessingTime, totalTasksCompleted, taskIdCounter,
                   performanceHistory, recentGlobalAverage, workers, completed, died,
                   requeued, failures>>
    /\ UNCHANGED <<wsLog, updateLock, rdVars, prVars, tmVars>>

\* the 'error' listener of the state-consistency test: busyWorkers.delete,
\* clearWorkerTask
CtErrorCleanup(w) ==
    /\ pc = "idle"
    /\ w \in busyWorkers
    /\ busyWorkers' = busyWorkers \ {w}
    /\ currentTasks' = clearWorkerTask(currentTasks, w)
    /\ wsLast' = [op |-> "errorCleanup", workerId |-> w]
    /\ UNCHANGED <<file, NUM_CORES, pc, fileSize, totalBytesProcessed, primeCount, tasks,
                   failedTasks, remainingFileRange, workerStats,
                   globalAverageProcessingTime, totalTasksCompleted, taskIdCounter,
                   performanceHistory, recentGlobalAverage, workers, completed, died,
                   requeued, failures>>
    /\ UNCHANGED <<wsLog, updateLock, rdVars, prVars, tmVars>>

CtNext ==
    \/ \E w \in WorkerIds : CtStartWorker(w)
    \/ \E w \in WorkerIds : CtSetCurrentTask(w)
    \/ \E w \in WorkerIds : CtClearWorkerTask(w)
    \/ \E w \in WorkerIds : CtUpdateWorkerStats(w)
    \/ \E w \in WorkerIds : CtErrorCleanup(w)

SpecCurrentTask == WsInit /\ [][CtNext]_vars

(***************************** isPrime harness ******************************)
\* every number up to MaxPrime is given to isPrime once
PrInit ==
    /\ MainIdle
    /\ NUM_CORES = 1
    /\ rdFile = <<>> /\ rdCuts = {} /\ rdPos = 0 /\ rdOut = <<>>
    /\ tmCounter = 0 /\ tmMinted = <<>> /\ tmCalls = 0
    /\ tmHistory = <<>> /\ tmLast = NoCall /\ tmRecent = Rat0 /\ tmLog = <<>>
    /\ wsLog = <<>> /\ wsLast = NoCall /\ updateLock = FALSE
    /\ \E num \in 0..MaxPrime : prLast = [op |-> "input", num |-> num]

PrIsPrime ==
    /\ pc = "idle"
    /\ prLast.op = "input"
    /\ prLast' = [op |-> "isPrime", num |-> prLast.num, answer |-> isPrime(prLast.num)]
    /\ UNCHANGED <<mainVars, rdVars, tmVars, wsVars>>

PrNext == PrIsPrime

SpecPrime == PrInit /\ [][PrNext]_vars

(***************************** properties **********************************)
RECURSIVE SumProcessTask(_, _)
SumProcessTask(f, q) ==
    IF q = <<>> THEN 0 ELSE processTask(f, Head(q)) + SumProcessTask(f, Tail(q))

\* the count a run over the initial partition for `cores` cores adds up
CountWithCores(f, cores) ==
    SumProcessTask(f, createInitialTasks(Size(f), cores, 0).tasks)

RECURSIVE SumPrimesFound(_, _)
SumPrimesFound(stats, ids) ==
    IF ids = {} THEN 0
    ELSE LET w == CHOOSE x \in ids : TRUE
         IN  stats[w].primesFound + SumPrimesFound(stats, ids \ {w})

Overlap(t, u) == t.startByte < u.endByte /\ u.startByte < t.endByte

\* the ranges of the tasks in `done` cover [0, size): byte 0 and every range
\* end before size lie in some range
Covers(done, size) ==
    \A p \in {0} \cup {t.endByte : t \in done} :
        p < size => \E t \in done : t.startByte <= p /\ p < t.endByte

\* C1: the prime count of the final report equals the number of primes found
\* by reading the whole file line by line in one thread
C1_PrimeCountIsOracle ==
    pc = "reported" => primeCount = OraclePrimeCount(file)

\* C2: for any partition of the file into contiguous byte ranges, the
\* integers read range by range, concatenated in range order, are exactly
\* the integers of the whole file read by lines
C2_RangesConcatToWholeFile ==
    rdPos = Size(rdFile) => rdOut = WholeFileIntegers(rdFile)

\* C3: when the run is over, every task that was in flight on a failing
\* worker was pushed onto failedTasks once per failure and was completed, and
\* the prime count is the correct count for the file
C3_FailureRecovery ==
    (pc \in {"reported", "crashed"} /\ died # EmptyBag) =>
        /\ \A t \in BagToSet(died) :
              /\ CopiesIn(t, requeued) = CopiesIn(t, died)
              /\ CopiesIn(t, completed) >= 1
        /\ pc = "reported"
        /\ primeCount = OraclePrimeCount(file)

\* C4: at the final report the byte ranges of the folded tasks are pairwise
\* non-overlapping and their union is exactly [0, fileSize)
C4_CompletedRangesTileFile ==
    pc = "reported" =>
        /\ \A t \in BagToSet(completed) :
              /\ CopiesIn(t, completed) = 1
              /\ 0 <= t.startByte /\ t.startByte < t.endByte /\ t.endByte <= fileSize
        /\ \A t, u \in BagToSet(completed) : t # u => ~Overlap(t, u)
        /\ Covers(BagToSet(completed), fileSize)

C4_Witness ==
    /\ pc = "reported"
    /\ Cardinality(BagToSet(completed)) >= 3
    /\ requeued # EmptyBag

\* C5: the final report is emitted only with no busy worker, empty task and
\* failed queues, no remaining range, no task in flight or awaiting retry,
\* and every byte of the file counted as processed
C5_ReportOnlyWhenAllDone ==
    pc = "reported" =>
        /\ busyWorkers = {}
        /\ tasks = <<>> /\ failedTasks = <<>> /\ remainingFileRange = Null
        /\ DOMAIN currentTasks = {}
        /\ \A w \in WorkerIds : workers[w].status \in {"none", "exiting", "exited"}
        /\ totalBytesProcessed = fileSize

C5_Witness ==
    /\ pc = "reported"
    /\ NUM_CORES = 2
    /\ \A w \in WorkerIds : workers[w].status \in {"exiting", "exited"}
    /\ totalTasksCompleted >= 3
    /\ failures > 0

\* C6: under weak fairness of the workers and of the orchestrator, with
\* finitely many failures, the run eventually emits the final report
C6_EventuallyReported == <>(pc = "reported")

\* C7: the ids of the tasks minted by any sequence of createInitialTasks and
\* createAdaptiveTask calls are strictly increasing in creation order, hence
\* pairwise distinct
C7_IdsStrictlyIncreasing ==
    \A i, j \in 1..Len(tmMinted) : i < j => tmMinted[i].id < tmMinted[j].id

C7_Witness ==
    /\ Len(tmMinted) >= 4
    /\ \E i, j \in 1..Len(tmMinted) :
          /\ i < j
          /\ tmMinted[i].by = "createAdaptiveTask"
          /\ tmMinted[j].by = "createInitialTasks"
    /\ \E i, j \in 1..Len(tmMinted) :
          /\ i < j
          /\ tmMinted[i].by = "createInitialTasks"
          /\ tmMinted[j].by = "createAdaptiveTask"

\* C8: for a fixed file the final prime count does not depend on the number
\* of cores, hence on the chunk size of the partition
C8_CountIndependentOfCores ==
    pc = "reported" => \A cores \in 1..MaxCores : primeCount = CountWithCores(file, cores)

\* C9: at the final report the primesFound of all workers' stats add up to
\* the number of primes on the lines of the file, and to primeCount
C9_StatsPrimesAddUp ==
    pc = "reported" =>
        /\ SumPrimesFound(workerStats, DOMAIN workerStats) = OraclePrimeCount(file)
        /\ SumPrimesFound(workerStats, DOMAIN workerStats) = primeCount

\* C10: replacing a failed worker keeps its worker id and leaves the stats
\* entry of that id as it was
C10_ReplacementKeepsStats ==
    [][\A w \in WorkerIds :
          (workers[w].status = "errored" /\ workers'[w].status = "busy") =>
              (w \in DOMAIN workerStats' /\ workerStats'[w] = workerStats[w])]_vars

Elems(q) == {q[i] : i \in 1..Len(q)}

\* the main thread handles the Result lane w has posted
FoldStep(w) == workers[w].status = "posted" /\ workers'[w] # workers[w]

\* C11: when a worker becomes idle its next action is chosen in strict
\* priority order: a task of failedTasks if there is one, else a task of the
\* task queue if there is one, else a fresh adaptive task cut from the start
\* of remainingFileRange if it is not null; the exit message is sent only
\* when all three are empty
C11_DispatchPriority ==
    [][\A w \in WorkerIds : FoldStep(w) =>
          LET given == workers'[w].task
          IN  IF failedTasks # <<>>
              THEN /\ given \in Elems(failedTasks)
                   /\ Len(failedTasks') = Len(failedTasks) - 1
                   /\ tasks' = tasks /\ remainingFileRange' = remainingFileRange
              ELSE IF tasks # <<>>
              THEN /\ given \in Elems(tasks)
                   /\ Len(tasks') = Len(tasks) - 1
                   /\ failedTasks' = failedTasks
                   /\ remainingFileRange' = remainingFileRange
              ELSE IF remainingFileRange # Null
              THEN /\ given # Null
                   /\ given.startByte = remainingFileRange.start
                   /\ given.id = taskIdCounter
                   /\ tasks' = tasks /\ failedTasks' = failedTasks
              ELSE /\ given = Null
                   /\ workers'[w].status = "exiting"
                   /\ w \notin busyWorkers']_vars

\* one worker was sent the exit message while the other was given the last
\* queued task
C11_Witness ==
    /\ pc = "running"
    /\ \E w, v \in WorkerIds :
          /\ workers[w].status \in {"exiting", "exited"}
          /\ workers[v].status = "busy"
          /\ workers[v].task \notin BagToSet(completed)
    /\ tasks = <<>>
    /\ totalTasksCompleted >= 2

RECURSIVE SeqToBag(_)
SeqToBag(q) == IF q = <<>> THEN EmptyBag ELSE SetToBag({Head(q)}) (+) SeqToBag(Tail(q))

\* the class of w as getWorkerPerformance returns it once the step is done
ClassAfter(w) ==
    getWorkerPerformance(workerStats', totalTasksCompleted', globalAverageProcessingTime', w)

\* C12: dispatching from a non-empty task queue with failedTasks empty, a
\* slow worker facing at least two queued tasks is given a task of minimum
\* byte size; in every other case the worker is given the last element of
\* the queue; exactly that one task leaves the queue and the others remain
C12_QueueDispatchRule ==
    [][\A w \in WorkerIds : (FoldStep(w) /\ failedTasks = <<>> /\ tasks # <<>>) =>
          LET given == workers'[w].task
          IN  /\ given \in Elems(tasks)
              /\ IF ClassAfter(w) = "slow" /\ Len(tasks) >= 2
                 THEN \A u \in Elems(tasks) : TaskSize(given) <= TaskSize(u)
                 ELSE given = Last(tasks)
              /\ SeqToBag(tasks) = SeqToBag(tasks') (+) SetToBag({given})]_vars

\* a slow worker was given the first queued task (all queued tasks have the
\* same size) while later tasks are still queued, and a worker that was not
\* slow was given the last one
C12_Witness ==
    /\ totalTasksCompleted >= 3
    /\ tasks # <<>>
    /\ \E w, v \in WorkerIds :
          /\ w # v
          /\ workers[w].status = "busy" /\ workers[v].status = "busy"
          /\ workers[w].task.startByte = 0
          /\ \A i \in 1..Len(tasks) : workers[v].task.startByte > tasks[i].startByte
          /\ w \in DOMAIN workerStats /\ workerStats[w].tasksCompleted >= 1
          /\ workerStats[v].tasksCompleted >= 1

\* lane w has a task in flight: sent to its worker and not yet folded or
\* re-queued by the main thread
InFlight(w) == workers[w].status \in {"busy", "posted", "errored", "rejected"}

\* C14: every lane has at most one task in flight (the one recorded as its
\* current task), no task and no byte range is in flight on two lanes, and
\* at most NUM_CORES tasks are in flight, on lanes 0..NUM_CORES-1; also
\* across the failure of a worker and its replacement under the same id
C14_OneInFlightPerLane ==
    pc \in {"running", "reported"} =>
        /\ \A w \in WorkerIds :
              /\ InFlight(w) <=> workers[w].task # Null
              /\ InFlight(w) => /\ w < NUM_CORES
                                /\ w \in busyWorkers
                                /\ MapGet(currentTasks, w) = workers[w].task
              /\ ~InFlight(w) => w \notin busyWorkers /\ w \notin DOMAIN currentTasks
        /\ \A w, v \in WorkerIds :
              (w # v /\ InFlight(w) /\ InFlight(v)) =>
                  /\ workers[w].task # workers[v].task
                  /\ ~Overlap(workers[w].task, workers[v].task)
        /\ Cardinality({w \in WorkerIds : InFlight(w)}) <= NUM_CORES

\* both lanes busy, one of them on a replacement worker retrying a task
C14_Witness ==
    /\ NUM_CORES = 2
    /\ \A w \in WorkerIds : workers[w].status = "busy"
    /\ \E w \in WorkerIds : workers[w].task \in BagToSet(requeued)
    /\ totalTasksCompleted >= 1

ErrorStep(w) == workers[w].status = "errored" /\ workers'[w] # workers[w]

\* C16: on a worker error with work remaining the replacement worker is
\* given the task the dispatch policy selects for that worker id once the
\* failed task is queued: the front of failedTasks if it is not empty, else
\* the task assignTaskToWorker picks for the worker's class; with no work
\* remaining no replacement is created
C16_ReplacementFollowsPolicy ==
    [][\A w \in WorkerIds : ErrorStep(w) =>
          LET current == MapGet(currentTasks, w)
              failed1 == IF current # Null THEN Append(failedTasks, current)
                         ELSE failedTasks
              class == getWorkerPerformance(workerStats, totalTasksCompleted,
                                            globalAverageProcessingTime, w)
              policy == assignTaskToWorker(failed1, tasks, remainingFileRange, class,
                                           globalAverageProcessingTime,
                                           recentGlobalAverage, taskIdCounter)
              given == workers'[w].task
          IN  IF failed1 # <<>>
              THEN /\ workers'[w].status = "busy"
                   /\ given = Head(failed1)
                   /\ given = policy.task
                   /\ failedTasks' = Tail(failed1)
                   /\ tasks' = tasks
              ELSE IF tasks # <<>> \/ remainingFileRange # Null
              THEN /\ workers'[w].status = "busy"
                   /\ given = policy.task
                   /\ tasks' = policy.tasks
                   /\ remainingFileRange' = policy.rem
              ELSE workers'[w].status = "dead"]_vars

\* a replacement worker retries the failed task while the task queue still
\* holds work
C16_Witness ==
    /\ pc = "running"
    /\ tasks # <<>>
    /\ failures >= 1
    /\ \E w \in WorkerIds :
          /\ workers[w].status = "busy"
          /\ workers[w].task \in BagToSet(requeued)
          /\ workers[w].task \notin BagToSet(completed)
          /\ workerStats[w] = ZeroStats

\* C17: every task minted by createAdaptiveTask has a size in
\* [MIN_CHUNK_SIZE, MAX_CHUNK_SIZE], for every window, average and class,
\* unless it reaches the end of the remaining range: then it may be smaller
\* and its size is exactly endByte - startByte of that range
C17_AdaptiveSizeBounds ==
    tmLast.op = "createAdaptiveTask" =>
        /\ TaskSize(tmLast.task) <= MAX_CHUNK_SIZE
        /\ \/ TaskSize(tmLast.task) >= MIN_CHUNK_SIZE
           \/ /\ tmLast.task.endByte = tmLast.endByte
              /\ TaskSize(tmLast.task) = tmLast.endByte - tmLast.startByte

\* a slow worker with a window mean above 1000 ms is cut a task of exactly
\* MIN_CHUNK_SIZE from a longer range
C17_Witness ==
    /\ tmLast.op = "createAdaptiveTask"
    /\ tmLast.workerPerformance = "slow"
    /\ tmLast.window # <<>>
    /\ TaskSize(tmLast.task) = MIN_CHUNK_SIZE
    /\ tmLast.task.endByte < tmLast.endByte

\* the mean of a window is above c ms
WindowMeanGt(window, c) == Len(window) > 0 /\ SumSeq(window) > c * Len(window)

\* the size table of the adaptive sizer, read with a predicate Gt(c) that
\* says whether the average is above c
SizeTable(gt1000, gt500, gt200) ==
    IF gt1000 THEN MIN_CHUNK_SIZE
    ELSE IF gt500 THEN (MIN_CHUNK_SIZE + MAX_CHUNK_SIZE) \div 4
    ELSE IF gt200 THEN (MIN_CHUNK_SIZE + MAX_CHUNK_SIZE) \div 2
    ELSE MAX_CHUNK_SIZE

\* C18 (as claimed): the base chunk size is a function of the window only:
\* MIN_CHUNK for a window mean above 1000, (MIN_CHUNK + MAX_CHUNK) / 4 for
\* (500, 1000], (MIN_CHUNK + MAX_CHUNK) / 2 for (200, 500], MAX_CHUNK for a
\* mean of at most 200 or an empty window, whatever global average is passed
C18_BaseFromWindowOnly ==
    tmLast.op = "createAdaptiveTask" =>
        tmLast.baseChunkSize = SizeTable(WindowMeanGt(tmLast.window, 1000),
                                         WindowMeanGt(tmLast.window, 500),
                                         WindowMeanGt(tmLast.window, 200))

\* C18 (amended): the base chunk size is read from the table with the window
\* mean when the window holds data and its mean is not 0, and with the
\* global average passed in otherwise
C18_BaseFromWindowElseGlobal ==
    tmLast.op = "createAdaptiveTask" =>
        /\ 4 * ((MIN_CHUNK_SIZE + MAX_CHUNK_SIZE) \div 4) = MIN_CHUNK_SIZE + MAX_CHUNK_SIZE
        /\ tmLast.baseChunkSize =
              IF WindowMeanGt(tmLast.window, 0)
              THEN SizeTable(WindowMeanGt(tmLast.window, 1000),
                             WindowMeanGt(tmLast.window, 500),
                             WindowMeanGt(tmLast.window, 200))
              ELSE SizeTable(RatGt(tmLast.globalAverageTime, 1000),
                             RatGt(tmLast.globalAverageTime, 500),
                             RatGt(tmLast.globalAverageTime, 200))

\* a window with a mean in (200, 500] decides the size against a global
\* average above 1000
C18_Witness ==
    /\ tmLast.op = "createAdaptiveTask"
    /\ WindowMeanGt(tmLast.window, 200) /\ ~WindowMeanGt(tmLast.window, 500)
    /\ RatGt(tmLast.globalAverageTime, 1000)
    /\ tmLast.baseChunkSize = (MIN_CHUNK_SIZE + MAX_CHUNK_SIZE) \div 2

\* the initial chunk size as the three-branch rule states it
ThreeBranchChunk(size, cores) ==
    IF size < MIN_CHUNK_SIZE * cores * 2
    THEN (IF CeilDiv(size, cores * 2) > 1024 THEN CeilDiv(size, cores * 2) ELSE 1024)
    ELSE IF size < MAX_CHUNK_SIZE * cores * 4
    THEN CeilDiv(size, cores * 4)
    ELSE IF CeilDiv(size, cores * 4) < MIN_CHUNK_SIZE THEN MIN_CHUNK_SIZE
    ELSE IF CeilDiv(size, cores * 4) > MAX_CHUNK_SIZE THEN MAX_CHUNK_SIZE
    ELSE CeilDiv(size, cores * 4)

\* C19: for fileSize > 0 createInitialTasks returns contiguous tasks: the
\* first starts at 0, each next one starts where the previous ends, all but
\* the last have exactly the chunk size of the three-branch rule, and the
\* last ends at fileSize
C19_InitialTasksContiguous ==
    (tmLast.op = "createInitialTasks" /\ tmLast.fileSize > 0) =>
        LET q == tmLast.tasks
            n == Len(q)
        IN  /\ n >= 1
            /\ q[1].startByte = 0
            /\ \A i \in 1..(n - 1) :
                  /\ q[i + 1].startByte = q[i].endByte
                  /\ TaskSize(q[i]) = ThreeBranchChunk(tmLast.fileSize, NUM_CORES)
            /\ q[n].endByte = tmLast.fileSize

\* three tasks of 1024 bytes (the floor) and a shorter last one
C19_Witness ==
    /\ tmLast.op = "createInitialTasks"
    /\ tmLast.fileSize = 3000
    /\ NUM_CORES = 2
    /\ Len(tmLast.tasks) = 3
    /\ TaskSize(tmLast.tasks[3]) < 1024

\* C20: every minted task has integer bounds with
\* 0 <= startByte < endByte <= fileSize: the tasks of createInitialTasks
\* within [0, fileSize), the task of createAdaptiveTask within the remaining
\* range it was cut from
C20_TaskBoundsValid ==
    /\ tmLast.op = "createInitialTasks" =>
          \A i \in 1..Len(tmLast.tasks) :
              LET t == tmLast.tasks[i]
              IN  0 <= t.startByte /\ t.startByte < t.endByte /\ t.endByte <= tmLast.fileSize
    /\ tmLast.op = "createAdaptiveTask" =>
          LET t == tmLast.task
          IN  /\ t.startByte = tmLast.startByte
              /\ 0 <= t.startByte /\ t.startByte < t.endByte /\ t.endByte <= tmLast.endByte
              /\ 2 * t.endByte = tmLast.endTimes2

\* a fast worker's task of 1.5 times the base size, cut from inside a range
C20_Witness ==
    /\ tmLast.op = "createAdaptiveTask"
    /\ tmLast.workerPerformance = "fast"
    /\ tmLast.startByte > 0
    /\ 2 * TaskSize(tmLast.task) = 3 * tmLast.baseChunkSize
    /\ tmLast.task.endByte < tmLast.endByte

RECURSIVE SumFrom(_, _)
SumFrom(q, i) == IF i > Len(q) THEN 0 ELSE q[i] + SumFrom(q, i + 1)

\* C21: after any sequence of addPerformanceData calls the history holds at
\* most 20 durations, they are the most recent min(n, 20) of the n recorded
\* durations in arrival order, and the cached recent average is the mean of
\* the durations in the window
C21_HistoryWindow ==
    LET n == Len(tmLog)
        m == IF n < 20 THEN n ELSE 20
    IN  /\ Len(tmHistory) <= 20
        /\ tmHistory = [i \in 1..m |-> tmLog[n - m + i]]
        /\ m > 0 => /\ tmRecent.k > 0
                    /\ tmRecent.s * m = SumFrom(tmLog, n - m + 1) * tmRecent.k

\* 22 durations recorded: the two oldest are gone, the window mean changed
C21_Witness ==
    /\ Len(tmLog) = 22
    /\ tmLog[1] = 100 /\ tmLog[21] = 700 /\ tmLog[22] = 1500
    /\ Len(tmHistory) = 20
    /\ tmRecent = Rat(18 * 100 + 700 + 1500, 20)

\* sums over the Results applied: all of them (w = -1) or those of worker w
RECURSIVE LogTime(_, _)
LogTime(q, w) ==
    IF q = <<>> THEN 0
    ELSE (IF w = -1 \/ Head(q).workerId = w THEN Head(q).processingTime ELSE 0)
         + LogTime(Tail(q), w)

RECURSIVE LogCount(_, _)
LogCount(q, w) ==
    IF q = <<>> THEN 0
    ELSE (IF w = -1 \/ Head(q).workerId = w THEN Head(q).count ELSE 0) + LogCount(Tail(q), w)

LogTasks(q, w) == Cardinality({i \in 1..Len(q) : w = -1 \/ q[i].workerId = w})

RECURSIVE SumTasksCompleted(_, _)
SumTasksCompleted(stats, ids) ==
    IF ids = {} THEN 0
    ELSE LET w == CHOOSE x \in ids : TRUE
         IN  stats[w].tasksCompleted + SumTasksCompleted(stats, ids \ {w})

\* C22: after any sequence of updateWorkerStats calls for initialised
\* workers, in any interleaving across workers, the workers' tasksCompleted
\* add up to the number of updates and to totalTasksCompleted, their
\* primesFound add up to the sum of the Results' counts, each worker's
\* totalProcessingTime is the sum of its own Results' times, and the global
\* average is the mean of all folded times, one weight per task
C22_StatsAddUp ==
    pc = "idle" =>
        /\ SumTasksCompleted(workerStats, DOMAIN workerStats) = Len(wsLog)
        /\ totalTasksCompleted = Len(wsLog)
        /\ SumPrimesFound(workerStats, DOMAIN workerStats) = LogCount(wsLog, -1)
        /\ \A w \in DOMAIN workerStats :
              workerStats[w].totalProcessingTime = LogTime(wsLog, w)
        /\ Len(wsLog) > 0 =>
              /\ globalAverageProcessingTime.k > 0
              /\ globalAverageProcessingTime.s * Len(wsLog)
                    = LogTime(wsLog, -1) * globalAverageProcessingTime.k

\* three updates interleaved across two workers with different times: the
\* mean by task (200) differs from the mean of the workers' means (250)
C22_Witness ==
    /\ pc = "idle"
    /\ Len(wsLog) = 3
    /\ wsLog[1].workerId = 1 /\ wsLog[2].workerId = 0 /\ wsLog[3].workerId = 1
    /\ wsLog[1].processingTime = 100 /\ wsLog[2].processingTime = 400
    /\ wsLog[3].processingTime = 100
    /\ LogCount(wsLog, -1) = 4
    /\ globalAverageProcessingTime = Rat(600, 3)

\* the class of worker w as the rule states it, from the Results applied
ClassFromLog(q, w) ==
    IF Len(q) < 3 \/ LogTasks(q, w) = 0 \/ LogTime(q, -1) = 0 THEN "average"
    ELSE \* r = (LogTime(q, w) / LogTasks(q, w)) / (LogTime(q, -1) / Len(q))
         IF 10 * LogTime(q, w) * Len(q) > 12 * LogTasks(q, w) * LogTime(q, -1) THEN "slow"
         ELSE IF 10 * LogTime(q, w) * Len(q) < 8 * LogTasks(q, w) * LogTime(q, -1) THEN "fast"
         ELSE "average"

\* C23: getWorkerPerformance(w) is average when fewer than 3 tasks were
\* completed globally or w completed none (also when the global average is
\* 0); otherwise, with r = w's average / global average, it is slow iff
\* r > 1.2, fast iff r < 0.8, and average otherwise
C23_PerformanceClass ==
    pc = "idle" =>
        \A w \in WorkerIds :
            getWorkerPerformance(workerStats, totalTasksCompleted,
                                 globalAverageProcessingTime, w) = ClassFromLog(wsLog, w)

\* three tasks done: worker 0 (400 ms against a mean of 200) is slow,
\* worker 1 (100 ms) is fast
C23_Witness ==
    /\ pc = "idle"
    /\ totalTasksCompleted = 3
    /\ getWorkerPerformance(workerStats, totalTasksCompleted,
                            globalAverageProcessingTime, 0) = "slow"
    /\ getWorkerPerformance(workerStats, totalTasksCompleted,
                            globalAverageProcessingTime, 1) = "fast"

\* worker a's average processing time is strictly larger than worker b's
AvgLarger(a, b) ==
    /\ a \in DOMAIN workerStats /\ b \in DOMAIN workerStats
    /\ workerStats[a].tasksCompleted > 0 /\ workerStats[b].tasksCompleted > 0
    /\ workerStats[a].totalProcessingTime * workerStats[b].tasksCompleted
         > workerStats[b].totalProcessingTime * workerStats[a].tasksCompleted

\* C24: in any state, for workers A and B with A's average processing time
\* strictly larger than B's, A is never classified fast while B is
\* classified slow
C24_ClassMonotone ==
    pc = "idle" =>
        \A a, b \in WorkerIds :
            AvgLarger(a, b) =>
                ~ /\ getWorkerPerformance(workerStats, totalTasksCompleted,
                                          globalAverageProcessingTime, a) = "fast"
                  /\ getWorkerPerformance(workerStats, totalTasksCompleted,
                                          globalAverageProcessingTime, b) = "slow"

\* the worker with the larger average is slow and the other one fast
C24_Witness ==
    /\ pc = "idle"
    /\ \E a, b \in WorkerIds :
          /\ AvgLarger(a, b)
          /\ getWorkerPerformance(workerStats, totalTasksCompleted,
                                  globalAverageProcessingTime, a) = "slow"
          /\ getWorkerPerformance(workerStats, totalTasksCompleted,
                                  globalAverageProcessingTime, b) = "fast"

\* the current task of every worker but w is what it was
OthersKeepTask(w) ==
    \A v \in WorkerIds \ {w} :
        getCurrentTask(currentTasks', v) = getCurrentTask(currentTasks, v)

ByteAt(f, i) == Slice(f, i, i + 1)[1].b

\* the unterminated bytes at the end of the range [s, e) of f
CutTail(f, s, e) == SplitAcc(Slice(f, s, e), <<>>, <<>>).rest

\* C25: when a task starts at an offset > 0 right after a newline, nothing
\* of its range is discarded: the reader yields the first full line and
\* every following line of the range (for "11\n13\n17\n" cut at 3 the
\* second task yields 13 and 17)
C25_LineStartKept ==
    [][ LET e == RangeEnd(rdCuts, rdPos, Size(rdFile))
        IN  (/\ rdPos > 0
             /\ ByteAt(rdFile, rdPos - 1) = NL
             /\ CutTail(rdFile, rdPos, e) = <<>>) =>
                rdOut' = rdOut \o ParsedLines(readlineLines(Slice(rdFile, rdPos, e)))
      ]_rdVars

\* C26: a line that starts inside the range [start, end) and is not
\* terminated before end, with end < file size, contributes no integer to
\* the task: the task yields what it yields for the range up to the start of
\* that line, and nothing when that line starts at or before start
C26_CutLineNotEmitted ==
    [][ LET e == RangeEnd(rdCuts, rdPos, Size(rdFile))
            lineStart == e - Size(CutTail(rdFile, rdPos, e))
        IN  (e < Size(rdFile) /\ lineStart < e) =>
                rdOut' = rdOut \o (IF lineStart > rdPos
                                   THEN readIntegers(rdFile, rdPos, lineStart)
                                   ELSE <<>>)
      ]_rdVars

\* the pending task queue is no longer than this bound allows
QueueWithin(bound) == Len(tasks) <= bound

\* C27 (as claimed): the pending task queue never holds more than
\* ceil(fileSize / MIN_CHUNK_SIZE) tasks
C27_QueueWithinMinChunkBound ==
    pc # "init" => QueueWithin(CeilDiv(fileSize, MIN_CHUNK_SIZE))

\* C27 (amended): the pending task queue never holds more tasks than the
\* initial partition has, ceil(fileSize / chunk) for the initial chunk size
\* of the three-branch rule, which can be smaller than MIN_CHUNK_SIZE but
\* not smaller than 1024 bytes
C27_QueueWithinInitialPartition ==
    pc # "init" =>
        /\ QueueWithin(CeilDiv(fileSize, ThreeBranchChunk(fileSize, NUM_CORES)))
        /\ ThreeBranchChunk(fileSize, NUM_CORES) >= 1024
        /\ QueueWithin(CeilDiv(fileSize, 1024))

\* two cores on a 4 MiB file: six of the eight 512 KiB tasks are queued,
\* more than the four that MIN_CHUNK_SIZE allows
C27_Witness ==
    /\ pc = "running"
    /\ NUM_CORES = 2
    /\ Len(tasks) = 6
    /\ CeilDiv(fileSize, MIN_CHUNK_SIZE) = 4

\* C29: the orchestrator emits the final report and exits only after every
\* worker has received the exit message and ended, and a worker that has
\* received exit is never given another task
C29_ReportAfterWorkersExit ==
    [][ /\ pc' = "reported" =>
              \A w \in WorkerIds : workers'[w].status \in {"none", "exited"}
        /\ \A w \in WorkerIds :
              workers[w].status = "exited" => workers'[w].status = "exited" ]_vars

\* C30: when processing a task fails inside a worker, the worker posts one
\* structured failure message that names the failed task, posts no Result
\* for it, does not retry it and takes no further task; the worker ends
C30_WorkerFailsAtTaskBoundary ==
    [][\A w \in WorkerIds :
          /\ (workers[w].status = "busy" /\ workers'[w].status = "rejected") =>
                /\ workers'[w].msg.type = "error"
                /\ workers'[w].msg.workerId = w
                /\ workers'[w].msg.taskFailed = workers[w].task
                /\ workers'[w].msg.taskFailed = getCurrentTask(currentTasks, w)
                /\ completed' = completed
          /\ workers[w].status = "rejected" =>
                /\ workers'[w].status \in {"rejected", "exited"}
                /\ workers'[w].status = "rejected" => workers'[w] = workers[w]
                /\ workers'[w].status = "exited" => workers'[w].task = Null
                /\ CopiesIn(workers[w].task, completed')
                      = CopiesIn(workers[w].task, completed) ]_vars

\* a worker has failed on its task while the queue still holds work
C30_Witness ==
    /\ \E w \in WorkerIds :
          /\ workers[w].status = "rejected"
          /\ workers[w].msg = FailureMessage(w, workers[w].task)
    /\ tasks # <<>>

\* the main thread handles the failure of lane w: the 'error' event of a
\* worker that died, or the failure message of a worker whose task failed
FailureHandled(w) ==
    workers[w].status \in {"errored", "rejected"} /\ workers'[w] # workers[w]

\* C31: there is no retry cap: a task whose worker dies is dispatched again
\* after every failure, however often it has failed, and is never dropped;
\* hence no final report is emitted while a task that failed has not been
\* completed
C31_NoRetryCap ==
    [][ /\ \A w \in WorkerIds : FailureHandled(w) =>
              /\ workers'[w].status = "busy"
              /\ workers'[w].task = workers[w].task
        /\ pc' = "reported" =>
              \A t \in BagToSet(died') : CopiesIn(t, completed') >= 1 ]_vars

\* the trimmed line is a decimal integer: digits only, at least one
RECURSIVE AllDigits(_)
AllDigits(l) == l = <<>> \/ (Head(l).b <= 9 /\ AllDigits(Tail(l)))

IsDecimalInteger(line) == trim(line) # <<>> /\ AllDigits(trim(line))

\* the values of the lines that are decimal integers
RECURSIVE DecimalLines(_)
DecimalLines(ls) ==
    IF ls = <<>> THEN <<>>
    ELSE (IF IsDecimalInteger(Head(ls)) THEN <<parseInt(trim(Head(ls)))>> ELSE <<>>)
         \o DecimalLines(Tail(ls))

\* C32: reading a whole file in one task, a line whose trimmed content is
\* not a decimal integer adds nothing to the count, and every line that is a
\* decimal integer is tested for primality: the count is the number of primes
\* among the decimal-integer lines (2 for "7\nfoo\n11\n")
C32_NonIntegerLinesSkipped ==
    [][ (rdPos = 0 /\ rdCuts = {}) =>
            CountPrimes(SubSeq(rdOut', Len(rdOut) + 1, Len(rdOut')))
                = CountPrimes(DecimalLines(readlineLines(rdFile))) ]_rdVars

\* C34: after startup remainingFileRange is null for every file size and
\* stays null: no adaptive task is minted (the id counter stays at the number
\* of initial tasks) and every task queued, in flight or completed is a task
\* of the initial partition
C34_RemRangeAlwaysNull ==
    /\ remainingFileRange = Null
    /\ \A size \in TmFileSizes :
          initialRange(createInitialTasks(size, NUM_CORES, 0).tasks, size) = Null
    /\ pc # "init" =>
          LET initial == createInitialTasks(fileSize, NUM_CORES, 0)
          IN  /\ taskIdCounter = initial.counter
              /\ \A w \in WorkerIds :
                    workers[w].task # Null => workers[w].task \in Elems(initial.tasks)
              /\ Elems(tasks) \cup Elems(failedTasks) \cup BagToSet(completed)
                    \subseteq Elems(initial.tasks)

\* the queue of a three-task file is drained: one worker retries the task
\* of a worker that died, the other was sent exit and no adaptive task
C34_Witness ==
    /\ pc = "running"
    /\ taskIdCounter = 3
    /\ tasks = <<>>
    /\ remainingFileRange = Null
    /\ \E w, v \in WorkerIds :
          /\ workers[w].status \in {"exiting", "exited"}
          /\ workers[v].status = "busy"
          /\ workers[v].task \in BagToSet(requeued)

\* the bytes of the tasks of a bag, copies counted
RECURSIVE BagBytes(_, _)
BagBytes(bag, ts) ==
    IF ts = {} THEN 0
    ELSE LET t == CHOOSE x \in ts : TRUE
         IN  CopiesIn(t, bag) * (t.endByte - t.startByte) + BagBytes(bag, ts \ {t})

\* C35: totalBytesProcessed never exceeds fileSize: it is the sum of the
\* sizes of the tasks whose Result was folded, each folded at most once, and
\* a task in flight (also one being retried after a failure) has added no
\* bytes yet
C35_BytesWithinFileSize ==
    /\ totalBytesProcessed <= fileSize
    /\ totalBytesProcessed = BagBytes(completed, BagToSet(completed))
    /\ \A t \in BagToSet(completed) : CopiesIn(t, completed) = 1
    /\ \A w \in WorkerIds :
          workers[w].task # Null => workers[w].task \notin BagToSet(completed)

\* a task failed twice and is being retried: the bytes of the other tasks
\* are counted, its own are not
C35_Witness ==
    /\ pc = "running"
    /\ totalBytesProcessed > 0
    /\ \E w \in WorkerIds :
          /\ workers[w].status = "busy"
          /\ CopiesIn(workers[w].task, requeued) = 2
          /\ totalBytesProcessed + TaskSize(workers[w].task) = fileSize

\* C36: when the orchestrator receives a worker's failure message,
\* primeCount, totalBytesProcessed, the worker stats, the global figures and
\* the history are left as they are: the message is not folded as a Result
C36_FailureMessageNotFolded ==
    [][\A w \in WorkerIds :
          (workers[w].status = "rejected" /\ workers'[w] # workers[w]) =>
              /\ primeCount' = primeCount
              /\ totalBytesProcessed' = totalBytesProcessed
              /\ workerStats' = workerStats
              /\ totalTasksCompleted' = totalTasksCompleted
              /\ globalAverageProcessingTime' = globalAverageProcessingTime
              /\ performanceHistory' = performanceHistory
              /\ completed' = completed
              /\ pc' = "running" ]_vars

\* C37: failedTasks is empty in every state between handlers: the 'error'
\* handler pushes the failed task and takes it back for the replacement
\* worker, which so retries exactly the task that failed, the task queue
\* untouched; a worker that becomes idle is never given a task of failedTasks
C37_FailedQueueTransient ==
    [][ /\ failedTasks = <<>> /\ failedTasks' = <<>>
        /\ \A w \in WorkerIds : ErrorStep(w) =>
              /\ Len(Append(failedTasks, getCurrentTask(currentTasks, w))) = 1
              /\ workers'[w].status = "busy"
              /\ workers'[w].task = workers[w].task
              /\ workers'[w].task = getCurrentTask(currentTasks, w)
              /\ tasks' = tasks
        /\ \A w \in WorkerIds : (FoldStep(w) /\ workers'[w].task # Null) =>
              /\ workers'[w].task \in Elems(tasks)
              /\ workers'[w].task \notin BagToSet(requeued) ]_vars

\* the same task failed twice on one worker id and is in flight a third time
\* while the queue still holds a task
C37_Witness ==
    /\ pc = "running"
    /\ failedTasks = <<>>
    /\ tasks # <<>>
    /\ \E w \in WorkerIds :
          /\ workers[w].status = "busy"
          /\ CopiesIn(workers[w].task, requeued) = 2

\* the current tasks recorded for the worker ids of a set, as a bag
RECURSIVE CurrentBag(_, _)
CurrentBag(current, ids) ==
    IF ids = {} THEN EmptyBag
    ELSE LET w == CHOOSE x \in ids : TRUE
         IN  SetToBag({current[w]}) (+) CurrentBag(current, ids \ {w})

\* C38: between handlers a worker id is in busyWorkers exactly when a
\* current task is recorded for it, the recorded task is the one last sent to
\* that worker, and every task of the partition is in exactly one place: the
\* task queue, failedTasks, in flight on one worker, or completed
C38_TasksConserved ==
    pc # "init" =>
        /\ \A w \in WorkerIds : w \in busyWorkers <=> w \in DOMAIN currentTasks
        /\ \A w \in WorkerIds :
              workers[w].task # Null => getCurrentTask(currentTasks, w) = workers[w].task
        /\ SeqToBag(tasks) (+) SeqToBag(failedTasks)
              (+) CurrentBag(currentTasks, DOMAIN currentTasks) (+) completed
              = SeqToBag(createInitialTasks(fileSize, NUM_CORES, 0).tasks)

\* one task completed, two in flight, one of them on a replacement worker
C38_Witness ==
    /\ pc = "running"
    /\ Cardinality(busyWorkers) = 2
    /\ completed # EmptyBag
    /\ \E w \in WorkerIds :
          /\ w \in busyWorkers
          /\ workers[w].status = "busy"
          /\ workers[w].task \in BagToSet(requeued)
          /\ workerStats[w] = ZeroStats

\* the integer square root of n
Root(n) == CHOOSE r \in 0..n : r * r <= n /\ (r + 1) * (r + 1) > n

\* primality by definition: n > 1 has no divisor d with 1 < d and d * d <= n
IsPrimeNumber(n) == n > 1 /\ \A d \in 2..Root(n) : n % d # 0

\* C33: isPrime answers every non-negative integer up to the bound, and
\* answers as primality is defined: false for n <= 1, true for 2 and 3,
\* false for multiples of 2 or 3, and the answer of the definition both
\* below the trial-division threshold of 10000 and above it, on the
\* Miller-Rabin path
C33_IsPrimeIsPrimality ==
    prLast.op = "isPrime" =>
        LET n == prLast.num
        IN  /\ prLast.answer \in BOOLEAN
            /\ n <= 1 => prLast.answer = FALSE
            /\ n \in {2, 3} => prLast.answer = TRUE
            /\ (n > 3 /\ (n % 2 = 0 \/ n % 3 = 0)) => prLast.answer = FALSE
            /\ prLast.answer = IsPrimeNumber(n)

\* 15841 = 7 * 31 * 73 passes the Miller test to base 2 and is answered
\* composite on the Miller-Rabin path
C33_Witness ==
    /\ prLast.op = "isPrime"
    /\ prLast.num = 15841
    /\ prLast.num >= TRIAL_DIVISION_THRESHOLD
    /\ millerTestBigInt(OddPart(prLast.num - 1), prLast.num, 2)
    /\ ~IsPrimeNumber(prLast.num)
    /\ prLast.answer = FALSE

\* C39: updateLock is false whenever updateWorkerStats is entered and false
\* again when it has returned, also when its body threw: no call finds the
\* lock held, so the busy-wait loop never spins and no sequence of updates
\* blocks
C39_UpdateLockFree ==
    updateLock = FALSE

\* a call has thrown after two updates were applied, and the lock is free
C39_Witness ==
    /\ wsLast.op = "updateWorkerStatsThrew"
    /\ Len(wsLog) = 2
    /\ ~updateLock

\* one step of lane w: its worker thread finishing a task, or the main
\* thread handling the message or the 'error' event that lane has raised
LaneStep(w) == WorkerFinish(w) \/ WorkerExit(w) \/ HandleWorkerMessage(w) \/ OnWorkerError(w)

\* weak fairness of the startup callback and of every lane: a worker that
\* can finish does, an event that is queued is handled; failures are never
\* forced
FairSpec ==
    /\ Spec
    /\ WF_vars(Startup)
    /\ \A w \in WorkerIds : WF_vars(LaneStep(w))

=============================================================================
